---- MODULE Spec2Model ----
(***************************************************************************)
(* Model of the MS/TP link-layer scripts of BACman:                        *)
(*   - scripts/mstp_simulator.py: CRC-8 / CRC-16, build_frame, the         *)
(*     MstpSimulator framer (process_rx / parse_frame) and master-station  *)
(*     state machine (handle_frame / handle_use_token);                    *)
(*   - scripts/mstp_sniffer.py: crc8 / crc16 and MstpSniffer.process_byte; *)
(*   - scripts/mstp_test_sender.py: crc8_header and build_mstp_frame;      *)
(*   - scripts/crc_test.py, crc_parallel.py, crc_real_test.py and          *)
(*     mstp_capture.py: the CRC-8 functions they compare, and the loop of   *)
(*     mstp_capture.py that tallies the frames it sees;                    *)
(*   - scripts/crc16_verify.py: calculate_data_crc_ccitt and the captured  *)
(*     Who-Is it is run on.                                                *)
(* Specifications: Spec (the station handles frames), SpecFramer (a byte   *)
(* stream through the framers), SpecRun (MstpSimulator.run), SpecCrc (the  *)
(* CRC-8 functions on the same input), SpecCodec (the encoders and the     *)
(* CRC functions on the same arguments), SpecBus (several stations on one  *)
(* bus; SpecBusFair with every station's loop running on, SpecRing with    *)
(* every station knowing the others) and SpecCapture (the capture loop).   *)
(* Bytes are integers 0..255; bytes objects are sequences of bytes.        *)
(* Python's None is modelled by None (-1) for an address and by NoData, a   *)
(* sequence that is no bytes object, for an absent payload.                *)
(***************************************************************************)
EXTENDS Integers, Sequences, FiniteSets, TLC

(***************************************************************************)
(* Bit operations on non-negative integers.                                *)
(***************************************************************************)
RECURSIVE Xor(_, _)
Xor(a, b) ==
    IF a = 0 THEN b
    ELSE IF b = 0 THEN a
    ELSE ((a + b) % 2) + 2 * Xor(a \div 2, b \div 2)

RECURSIVE And(_, _)
And(a, b) ==
    IF a = 0 \/ b = 0 THEN 0
    ELSE ((a % 2) * (b % 2)) + 2 * And(a \div 2, b \div 2)

Or(a, b) == a + b - And(a, b)

Shl(a, n) == a * (2 ^ n)

Shr(a, n) == a \div (2 ^ n)

None == -1

NoData == <<None>>

(***************************************************************************)
(* mstp_simulator.py: frame type codes.                                    *)
(***************************************************************************)
FRAME_TOKEN == 0
FRAME_POLL_FOR_MASTER == 1
FRAME_REPLY_TO_POLL == 2
FRAME_TEST_REQUEST == 3
FRAME_TEST_RESPONSE == 4
FRAME_BACNET_DATA_EXPECTING_REPLY == 5
FRAME_BACNET_DATA_NOT_EXPECTING_REPLY == 6
BROADCAST == 255
PREAMBLE1 == 85
PREAMBLE2 == 255

(***************************************************************************)
(* mstp_simulator.crc8_header: the parallel-XOR form.                      *)
(***************************************************************************)
\* lines 73-83: the new register as a function of temp = (crc ^ byte) & 0xFF
crc8_header_terms(t0) ==
    LET temp == And(Xor(t0, Xor(Shl(t0, 1), Xor(Shl(t0, 2), Xor(Shl(t0, 3),
                    Xor(Shl(t0, 4), Xor(Shl(t0, 5), Xor(Shl(t0, 6),
                    Shl(t0, 7)))))))), 65535)
    IN  And(Xor(And(temp, 254), And(Shr(temp, 8), 1)), 255)

\* the same, tabulated once for the 256 values of temp
crc8_header_table == [t0 \in 0..255 |-> crc8_header_terms(t0)]

crc8_header_byte(crc, byte) == crc8_header_table[And(Xor(crc, byte), 255)]

RECURSIVE crc8_header_loop(_, _)
crc8_header_loop(crc, data) ==
    IF data = <<>> THEN crc
    ELSE crc8_header_loop(crc8_header_byte(crc, Head(data)), Tail(data))

\* variant: the register is returned without the final complement
crc8_header_no_complement(data) == crc8_header_loop(255, data)

crc8_header(data) == 255 - crc8_header_loop(255, data)

(***************************************************************************)
(* mstp_sniffer.crc8: the bitwise shift-right form with constant 0x8C.     *)
(***************************************************************************)
RECURSIVE ShiftXor(_, _, _)
ShiftXor(crc, poly, n) ==
    IF n = 0 THEN crc
    ELSE ShiftXor(IF crc % 2 = 1 THEN Xor(Shr(crc, 1), poly) ELSE Shr(crc, 1),
                  poly, n - 1)

RECURSIVE crc8_loop(_, _)
crc8_loop(crc, data) ==
    IF data = <<>> THEN crc
    ELSE crc8_loop(ShiftXor(Xor(crc, Head(data)), 140, 8), Tail(data))

crc8(data) == Xor(crc8_loop(255, data), 255)

(***************************************************************************)
(* The CRC-8 functions of the test scripts.  crc_test.crc8_header_python   *)
(* and crc_real_test.crc8_ashrae are the bitwise form with constant 0x8C;  *)
(* crc_test.crc8_header_rust_style, crc_parallel.crc8_parallel and         *)
(* mstp_capture.calc_standard_crc are the parallel-XOR form, the last one  *)
(* without the masks.                                                      *)
(***************************************************************************)
crc8_header_python(data) == And(255 - crc8_loop(255, data), 255)

crc8_ashrae(data) == And(255 - crc8_loop(255, data), 255)

\* variant: the bit shifted out at the left end is not folded back in
rust_style_byte_no_carry(crc, byte) ==
    LET temp == And(Xor(crc, byte), 255)
        temp16 == Xor(temp, Xor(Shl(temp, 1), Xor(Shl(temp, 2),
                  Xor(Shl(temp, 3), Xor(Shl(temp, 4), Xor(Shl(temp, 5),
                  Xor(Shl(temp, 6), Shl(temp, 7))))))))
    IN  And(And(temp16, 254), 255)

\* crc_test.py lines 21-28 and crc_parallel.py lines 9-23: one byte
rust_style_byte(crc, byte) ==
    LET temp == And(Xor(crc, byte), 255)
        temp16 == Xor(temp, Xor(Shl(temp, 1), Xor(Shl(temp, 2),
                  Xor(Shl(temp, 3), Xor(Shl(temp, 4), Xor(Shl(temp, 5),
                  Xor(Shl(temp, 6), Shl(temp, 7))))))))
    IN  And(Xor(And(temp16, 254), And(Shr(temp16, 8), 1)), 255)

RECURSIVE rust_style_loop(_, _)
rust_style_loop(crc, data) ==
    IF data = <<>> THEN crc
    ELSE rust_style_loop(rust_style_byte(crc, Head(data)), Tail(data))

crc8_header_rust_style(data) == And(255 - rust_style_loop(255, data), 255)

crc8_parallel(data) == And(255 - rust_style_loop(255, data), 255)

\* mstp_capture.py lines 12-16: one byte, no masks
calc_standard_byte(crc, byte) ==
    LET t0 == Xor(crc, byte)
        temp == Xor(t0, Xor(Shl(t0, 1), Xor(Shl(t0, 2), Xor(Shl(t0, 3),
                Xor(Shl(t0, 4), Xor(Shl(t0, 5), Xor(Shl(t0, 6),
                Shl(t0, 7))))))))
    IN  Xor(And(temp, 254), And(Shr(temp, 8), 1))

RECURSIVE calc_standard_loop(_, _)
calc_standard_loop(crc, data) ==
    IF data = <<>> THEN crc
    ELSE calc_standard_loop(calc_standard_byte(crc, Head(data)), Tail(data))

calc_standard_crc(data) == And(255 - calc_standard_loop(255, data), 255)

\* no CRC-8 function has been called yet
NoCrcs ==
    [simulator |-> None, sniffer |-> None, sender |-> None, python |-> None,
     rust_style |-> None, parallel |-> None, ashrae |-> None,
     standard |-> None]

(***************************************************************************)
(* mstp_simulator.crc16_data (identical to mstp_sniffer.crc16).            *)
(***************************************************************************)
RECURSIVE crc16_loop(_, _)
crc16_loop(crc, data) ==
    IF data = <<>> THEN crc
    ELSE LET c == ShiftXor(Xor(crc, Head(data)), 33800, 8)
         IN  \* c is a register value; the test has it computed byte by byte
             IF c >= 0 THEN crc16_loop(c, Tail(data)) ELSE c

\* variant: the top bit of every byte is left out of the CRC
crc16_data_7bit(data) ==
    65535 - crc16_loop(65535, [i \in 1..Len(data) |-> data[i] % 128])

\* variant: the register is returned as it is
crc16_data_no_complement(data) == crc16_loop(65535, data)

crc16_data(data) == 65535 - crc16_loop(65535, data)

crc16(data) == Xor(crc16_loop(65535, data), 65535)

(***************************************************************************)
(* mstp_simulator.build_frame.  struct.pack('<H', crc) is low byte first.  *)
(***************************************************************************)
\* variant: the data CRC is appended high byte first
build_frame_be(frame_type, dest, src, data) ==
    IF data = NoData \/ Len(data) = 0
    THEN LET header == <<frame_type, dest, src, 0, 0>>
         IN  <<PREAMBLE1, PREAMBLE2>> \o header \o <<crc8_header(header)>>
    ELSE LET data_len == Len(data)
             header == <<frame_type, dest, src,
                         And(Shr(data_len, 8), 255), And(data_len, 255)>>
             data_crc == crc16_data(data)
         IN  <<PREAMBLE1, PREAMBLE2>> \o header \o <<crc8_header(header)>>
                \o data \o <<data_crc \div 256, data_crc % 256>>

build_frame(frame_type, dest, src, data) ==
    IF data = NoData \/ Len(data) = 0
    THEN LET header == <<frame_type, dest, src, 0, 0>>
         IN  <<PREAMBLE1, PREAMBLE2>> \o header \o <<crc8_header(header)>>
    ELSE LET data_len == Len(data)
             header == <<frame_type, dest, src,
                         And(Shr(data_len, 8), 255), And(data_len, 255)>>
             data_crc == crc16_data(data)
         IN  <<PREAMBLE1, PREAMBLE2>> \o header \o <<crc8_header(header)>>
                \o data \o <<data_crc % 256, data_crc \div 256>>


(***************************************************************************)
(* Bounds and input alphabets.                                             *)
(***************************************************************************)
\* number of frames the station handles in one behaviour
MaxFrames == 2

\* MstpSimulator.__init__: max_master=127 (main never overrides it)
max_master == 127

\* own addresses the station may be started with (argv[3])
Macs == {3, 10, 127}

\* other addresses appearing in inbound frames: two valid masters, one
\* address above max_master and the broadcast address
Peers == {2, 5, 128, 255}

\* frame types appearing in inbound frames (9 is an unassigned code)
Types == {0, 1, 2, 3, 5, 6, 9}

\* payloads appearing in inbound frames
Payloads == {NoData, <<1>>}

\* longer payloads of the Test-Requests sent to the station
TestPayloads == {<<85, 255>>, <<2, 1, 0>>}

NoFrame == <<>>

VARIABLES
    mac,                  \* self.mac
    known_masters,        \* self.known_masters
    next_station,         \* self.next_station (None = -1)
    state,                \* self.state
    token_count,          \* self.token_count
    frame_count,          \* self.frame_count
    tokens_received,      \* self.tokens_received
    polls_received,       \* self.polls_received
    data_frames_received, \* self.data_frames_received
    frames_sent,          \* self.frames_sent
    rx_buffer,            \* self.rx_buffer
    pc,                   \* position of the thread: "loop", "use_token"
    cur,                  \* the frame handed to handle_frame last
    written,              \* frames written to self.ser while handling cur
    handled,              \* number of handle_frame calls so far
    discovery_log,        \* "DISCOVERED MASTER" lines logged and calls of
                          \* _update_next_station made, so far
    wire,                 \* bytes not yet read from the serial line
    segs,                 \* how the byte stream was composed (frames, noise)
    decoded,              \* frames returned by parse_frame so far
    ret,                  \* what the last parse_frame call did
    prog,                 \* which script is attached to the serial line
    sn,                   \* the MstpSniffer object
    sn_result,            \* frames returned by process_byte so far
    bytewise,             \* every read so far took a single byte
    crc_input,            \* the bytes handed to the CRC-8 functions
    crcs,                 \* what each CRC-8 function returned for them
    enc_in,               \* arguments handed to the encoders and CRC functions
    enc_out,              \* what the encoders and CRC functions returned
    stations,             \* the MstpSimulator objects on a shared bus, by mac
    inbox,                \* per station, the frames on the bus it has not
                          \* read yet
    capture               \* buffer and tallies of the loop of mstp_capture.py

station_vars == <<mac, known_masters, next_station, state, token_count,
                  frame_count, tokens_received, polls_received,
                  data_frames_received, frames_sent, pc, cur, written,
                  handled, discovery_log>>

crc_vars == <<crc_input, crcs>>

codec_vars == <<enc_in, enc_out>>

bus_vars == <<stations, inbox>>

capture_vars == <<capture>>

tool_vars == <<crc_vars, codec_vars, bus_vars, capture_vars>>

framer_vars == <<rx_buffer, wire, segs, decoded, ret, prog, sn, sn_result,
                 bytewise, tool_vars>>

vars == <<station_vars, framer_vars>>

(***************************************************************************)
(* MstpSimulator._update_next_station: walk the sorted masters and take    *)
(* the first one above our MAC, else wrap to masters[0].                   *)
(***************************************************************************)
SetMin(S) == CHOOSE m \in S : \A n \in S : m <= n

RECURSIVE sorted(_)
sorted(S) ==
    IF S = {} THEN <<>>
    ELSE <<SetMin(S)>> \o sorted(S \ {SetMin(S)})

RECURSIVE first_above(_, _)
first_above(masters, own) ==
    IF masters = <<>> THEN None
    ELSE IF Head(masters) > own THEN Head(masters)
    ELSE first_above(Tail(masters), own)

\* variant: never looks above the own address
update_next_station_lowest(km, own) ==
    IF km = {} THEN None ELSE sorted(km)[1]

update_next_station(km, own) ==
    IF km = {} THEN None
    ELSE LET masters == sorted(km)
             m == first_above(masters, own)
         IN  IF m # None THEN m ELSE masters[1]

(***************************************************************************)
(* MstpSimulator.discover_master, as a function of the membership state    *)
(* [km, ns, notified, recomputed]: a new valid address is added, the       *)
(* discovery is logged and next_station recomputed.                        *)
(***************************************************************************)
\* variant: addresses above max_master are recorded too
discover_master_unbounded(ms, own, a) ==
    IF a # own /\ a \notin ms.km
    THEN [km |-> ms.km \cup {a},
          ns |-> update_next_station(ms.km \cup {a}, own),
          notified |-> ms.notified + 1,
          recomputed |-> ms.recomputed + 1]
    ELSE ms

\* variant: the set is replaced by the newcomer
discover_master_replace(ms, own, a) ==
    IF a # own /\ a <= max_master /\ a \notin ms.km
    THEN [km |-> {a},
          ns |-> update_next_station({a}, own),
          notified |-> ms.notified + 1,
          recomputed |-> ms.recomputed + 1]
    ELSE ms

\* variant: no test whether the address is already known
discover_master_again(ms, own, a) ==
    IF a # own /\ a <= max_master
    THEN [km |-> ms.km \cup {a},
          ns |-> update_next_station(ms.km \cup {a}, own),
          notified |-> ms.notified + 1,
          recomputed |-> ms.recomputed + 1]
    ELSE ms

discover_master(ms, own, a) ==
    IF a # own /\ a <= max_master /\ a \notin ms.km
    THEN [km |-> ms.km \cup {a},
          ns |-> update_next_station(ms.km \cup {a}, own),
          notified |-> ms.notified + 1,
          recomputed |-> ms.recomputed + 1]
    ELSE ms

\* variant: only the destination of a Token is taken for a master
discover_dest_only(ms, own, frame_type, dest, src) ==
    IF frame_type = FRAME_TOKEN THEN discover_master(ms, own, dest)
    ELSE ms

\* variant: discovery only for frames addressed to the station
discover_if_addressed(ms, own, frame_type, dest, src) ==
    IF dest # own /\ dest # BROADCAST THEN ms
    ELSE LET m1 == discover_master(ms, own, src)
         IN  IF frame_type = FRAME_TOKEN THEN discover_master(m1, own, dest)
             ELSE m1

\* handle_frame lines 270-274: the discovery calls made for one frame
discover_from_frame(ms, own, frame_type, dest, src) ==
    LET m1 == discover_master(ms, own, src)
    IN  IF frame_type = FRAME_TOKEN THEN discover_master(m1, own, dest)
        ELSE IF frame_type = FRAME_REPLY_TO_POLL
             THEN discover_master(m1, own, src)
        ELSE m1

\* variant: whatever is sent goes out as a Token
send_frame_token(frame_type, dest, data) ==
    build_frame(FRAME_TOKEN, dest, mac, data)

\* variant: the frame carries the destination as its source
send_frame_src_dest(frame_type, dest, data) ==
    build_frame(frame_type, dest, dest, data)

\* variant: the payload is not passed on to build_frame
send_frame_no_data(frame_type, dest, data) ==
    build_frame(frame_type, dest, mac, NoData)

\* MstpSimulator.send_frame: the bytes written to the serial port
send_frame(frame_type, dest, data) == build_frame(frame_type, dest, mac, data)

(***************************************************************************)
(* MstpSimulator.handle_frame.  A Token addressed to the station leaves    *)
(* the thread inside handle_use_token (pc = "use_token"); every other      *)
(* frame is handled to completion in this step.                            *)
(***************************************************************************)
\* variant: every frame is taken as addressed to the station
for_anyone(dest) == TRUE

\* lines 276-278: the frame is for us (own address or broadcast)
for_us(dest) == dest = mac \/ dest = BROADCAST

\* the effect of one call of handle_frame on the station
handle_frame(frame_type, dest, src, data) ==
    /\ handled' = handled + 1
    /\ cur' = <<frame_type, dest, src, data>>
    /\ LET ms == discover_from_frame(
                    [km |-> known_masters, ns |-> next_station,
                     notified |-> discovery_log.notified,
                     recomputed |-> discovery_log.recomputed],
                    mac, frame_type, dest, src)
       IN  /\ known_masters' = ms.km
           /\ next_station' = ms.ns
           /\ discovery_log' = [notified |-> ms.notified,
                                recomputed |-> ms.recomputed]
    /\ IF ~for_us(dest)
       THEN /\ written' = <<>>
            /\ UNCHANGED <<state, tokens_received, polls_received,
                           data_frames_received, frames_sent, pc>>
       ELSE IF frame_type = FRAME_TOKEN
       THEN /\ tokens_received' = tokens_received + 1
            /\ state' = "USE_TOKEN"
            /\ pc' = "use_token"
            /\ written' = <<>>
            /\ UNCHANGED <<polls_received, data_frames_received, frames_sent>>
       ELSE IF frame_type = FRAME_POLL_FOR_MASTER
       THEN /\ polls_received' = polls_received + 1
            /\ written' = <<send_frame(FRAME_REPLY_TO_POLL, src, NoData)>>
            /\ frames_sent' = frames_sent + 1
            /\ UNCHANGED <<state, tokens_received, data_frames_received, pc>>
       ELSE IF frame_type = FRAME_BACNET_DATA_EXPECTING_REPLY
               \/ frame_type = FRAME_BACNET_DATA_NOT_EXPECTING_REPLY
       THEN /\ data_frames_received' = data_frames_received + 1
            /\ written' = <<>>
            /\ UNCHANGED <<state, tokens_received, polls_received,
                           frames_sent, pc>>
       ELSE IF frame_type = FRAME_TEST_REQUEST
       THEN /\ written' = <<send_frame(FRAME_TEST_RESPONSE, src, data)>>
            /\ frames_sent' = frames_sent + 1
            /\ UNCHANGED <<state, tokens_received, polls_received,
                           data_frames_received, pc>>
       ELSE /\ written' = <<>>
            /\ UNCHANGED <<state, tokens_received, polls_received,
                           data_frames_received, frames_sent, pc>>
    /\ UNCHANGED <<mac, token_count, frame_count>>

\* handle_frame called with a frame, the serial line left alone
HandleFrame(frame_type, dest, src, data) ==
    /\ pc = "loop"
    /\ handled < MaxFrames
    /\ handle_frame(frame_type, dest, src, data)
    /\ UNCHANGED framer_vars

(***************************************************************************)
(* MstpSimulator.handle_use_token.                                         *)
(***************************************************************************)
\* variant: no wrap at max_master
poll_target_nowrap == mac + 1

poll_target == (mac + 1) % (max_master + 1)

\* variant: the station keeps the token-holding state
HandleUseToken_hold ==
    /\ pc = "use_token"
    /\ token_count' = token_count + 1
    /\ frame_count' = 0
    /\ IF next_station # None
       THEN written' = Append(written, send_frame(FRAME_TOKEN, next_station, NoData))
       ELSE written' = Append(written, send_frame(FRAME_POLL_FOR_MASTER,
                                                  poll_target, NoData))
    /\ frames_sent' = frames_sent + 1
    /\ pc' = "loop"
    /\ UNCHANGED <<mac, known_masters, next_station, tokens_received, state,
                   polls_received, data_frames_received, cur, handled,
                   discovery_log>>
    /\ UNCHANGED <<rx_buffer, wire, segs, decoded, ret, prog, sn, sn_result,
                   bytewise, crc_input, crcs, enc_in, enc_out, stations,
                   inbox, capture>>

HandleUseToken ==
    /\ pc = "use_token"
    /\ token_count' = token_count + 1
    /\ frame_count' = 0
    /\ IF next_station # None
       THEN written' = Append(written, send_frame(FRAME_TOKEN, next_station, NoData))
       ELSE written' = Append(written, send_frame(FRAME_POLL_FOR_MASTER,
                                                  poll_target, NoData))
    /\ frames_sent' = frames_sent + 1
    /\ state' = "IDLE"
    /\ pc' = "loop"
    /\ UNCHANGED <<mac, known_masters, next_station, tokens_received,
                   polls_received, data_frames_received, cur, handled,
                   discovery_log>>
    /\ UNCHANGED framer_vars

(***************************************************************************)
(* MstpSimulator.parse_frame as a function of rx_buffer.  The result holds *)
(* the new rx_buffer, the returned tuple (NoFrame for None), which CRC     *)
(* error was logged, and the local header_crc when the header was read.    *)
(* Python indexes from 0, sequences from 1: rx_buffer[i] is buf[i + 1].    *)
(***************************************************************************)
Drop(buf, n) == SubSeq(buf, n + 1, Len(buf))

\* variant: only the first preamble byte is looked for
RECURSIVE find_first_byte(_, _)
find_first_byte(buf, i) ==
    IF i >= Len(buf) - 1 THEN -1
    ELSE IF buf[i + 1] = PREAMBLE1 THEN i
    ELSE find_first_byte(buf, i + 1)

\* lines 196-200: the first i with buf[i] = 0x55, buf[i+1] = 0xFF, else -1
RECURSIVE find_preamble(_, _)
find_preamble(buf, i) ==
    IF i >= Len(buf) - 1 THEN -1
    ELSE IF buf[i + 1] = PREAMBLE1 /\ buf[i + 2] = PREAMBLE2 THEN i
    ELSE find_preamble(buf, i + 1)

ParseResult(buf, frame, err, header_crc) ==
    [buf |-> buf, frame |-> frame, err |-> err, header_crc |-> header_crc]

\* variant: the header CRC is not looked at
header_crc_unchecked(b) == TRUE

\* lines 224-225: the CRC-8 over rx_buffer[2:7] against rx_buffer[7]
header_crc_matches(b) == crc8_header(SubSeq(b, 3, 7)) = b[8]

\* variant: the data CRC is not looked at
data_crc_unchecked(data, data_crc_recv) == TRUE

\* lines 244-246: the received data CRC against crc16_data over the payload
data_crc_matches(data, data_crc_recv) == data_crc_recv = crc16_data(data)

\* variant: the byte after the preamble goes as well
skip_three(b) == Drop(b, 3)

\* variant: a header CRC error throws the whole buffer away
skip_all(b) == <<>>

\* lines 227 and 249: rx_buffer[2:], the buffer without the preamble
skip_preamble(b) == Drop(b, 2)

\* variant: returning a frame empties the buffer
parse_header_clears(b) ==
    LET data_len == Or(Shl(b[6], 8), b[7])
        frame_size == IF data_len > 0 THEN 8 + data_len + 2 ELSE 8
        data == SubSeq(b, 9, 8 + data_len)
        data_crc_recv == Or(b[8 + data_len + 1], Shl(b[8 + data_len + 2], 8))
    IN  IF ~header_crc_matches(b)
        THEN ParseResult(skip_preamble(b), NoFrame, "header", b[8])
        ELSE IF Len(b) < frame_size
        THEN ParseResult(b, NoFrame, "none", b[8])
        ELSE IF data_len > 0 /\ ~data_crc_matches(data, data_crc_recv)
        THEN ParseResult(skip_preamble(b), NoFrame, "data", b[8])
        ELSE ParseResult(<<>>,
                         <<b[3], b[4], b[5],
                           IF data_len > 0 THEN data ELSE NoData>>,
                         "none", b[8])

\* variant: a header with a type code above 7 is treated as a header CRC
\* error
parse_header_known_types(b) ==
    LET frame_type == b[3]
        data_len == Or(Shl(b[6], 8), b[7])
        frame_size == IF data_len > 0 THEN 8 + data_len + 2 ELSE 8
        data == SubSeq(b, 9, 8 + data_len)
        data_crc_recv == Or(b[8 + data_len + 1], Shl(b[8 + data_len + 2], 8))
    IN  IF ~header_crc_matches(b) \/ frame_type > 7
        THEN ParseResult(skip_preamble(b), NoFrame, "header", b[8])
        ELSE IF Len(b) < frame_size
        THEN ParseResult(b, NoFrame, "none", b[8])
        ELSE IF data_len > 0 /\ ~data_crc_matches(data, data_crc_recv)
        THEN ParseResult(skip_preamble(b), NoFrame, "data", b[8])
        ELSE ParseResult(Drop(b, frame_size),
                         <<frame_type, b[4], b[5],
                           IF data_len > 0 THEN data ELSE NoData>>,
                         "none", b[8])

\* lines 216-255, for a buffer of at least 8 bytes that starts with the
\* preamble
parse_header(b) ==
    LET frame_type == b[3]
        dest == b[4]
        src == b[5]
        data_len == Or(Shl(b[6], 8), b[7])
        header_crc == b[8]
        frame_size == IF data_len > 0 THEN 8 + data_len + 2 ELSE 8
        data == SubSeq(b, 9, 8 + data_len)
        data_crc_recv == Or(b[8 + data_len + 1], Shl(b[8 + data_len + 2], 8))
    IN  IF ~header_crc_matches(b)
        THEN ParseResult(skip_preamble(b), NoFrame, "header", header_crc)
        ELSE IF Len(b) < frame_size
        THEN ParseResult(b, NoFrame, "none", header_crc)
        ELSE IF data_len > 0 /\ ~data_crc_matches(data, data_crc_recv)
        THEN ParseResult(skip_preamble(b), NoFrame, "data", header_crc)
        ELSE ParseResult(Drop(b, frame_size),
                         <<frame_type, dest, src,
                           IF data_len > 0 THEN data ELSE NoData>>,
                         "none", header_crc)

\* variant: a buffer without a preamble is kept whole
parse_frame_keep(buf) ==
    IF Len(buf) < 8 THEN ParseResult(buf, NoFrame, "none", None)
    ELSE LET preamble_pos == find_preamble(buf, 0)
         IN  IF preamble_pos < 0
             THEN ParseResult(buf, NoFrame, "none", None)
             ELSE LET b == IF preamble_pos > 0 THEN Drop(buf, preamble_pos)
                           ELSE buf
                  IN  IF Len(b) < 8
                      THEN ParseResult(b, NoFrame, "none", None)
                      ELSE parse_header(b)

parse_frame(buf) ==
    IF Len(buf) < 8 THEN ParseResult(buf, NoFrame, "none", None)
    ELSE LET preamble_pos == find_preamble(buf, 0)
         IN  IF preamble_pos < 0
             THEN ParseResult(IF Len(buf) > 1 THEN Drop(buf, Len(buf) - 1)
                              ELSE buf, NoFrame, "none", None)
             ELSE LET b == IF preamble_pos > 0 THEN Drop(buf, preamble_pos)
                           ELSE buf
                  IN  IF Len(b) < 8
                      THEN ParseResult(b, NoFrame, "none", None)
                      ELSE parse_header(b)

\* parse_frame returned None and left rx_buffer as it was
Settled(buf) == parse_frame(buf).frame = NoFrame /\ parse_frame(buf).buf = buf

\* parse_frame called until it returns None and leaves the buffer alone;
\* out collects the returned tuples
RECURSIVE parse_all(_, _)
parse_all(buf, out) ==
    LET r == parse_frame(buf)
    IN  IF r.frame = NoFrame /\ r.buf = buf
        THEN [buf |-> buf, frames |-> out]
        ELSE parse_all(r.buf, IF r.frame # NoFrame THEN Append(out, r.frame)
                              ELSE out)

(***************************************************************************)
(* MstpSimulator.process_rx: read what is waiting on the serial line.      *)
(* n is ser.in_waiting; the caller reads again only once parse_frame has   *)
(* nothing more to do with the buffer.                                     *)
(***************************************************************************)
ProcessRx(n) ==
    /\ prog = "simulator"
    /\ n > 0 /\ n <= Len(wire)
    /\ Settled(rx_buffer)
    /\ rx_buffer' = rx_buffer \o SubSeq(wire, 1, n)
    /\ wire' = Drop(wire, n)
    /\ bytewise' = (bytewise /\ n = 1)
    /\ UNCHANGED <<segs, decoded, ret, prog, sn, sn_result, tool_vars>>
    /\ UNCHANGED station_vars

\* one call of parse_frame that does something
ParseFrame ==
    /\ prog = "simulator"
    /\ ~Settled(rx_buffer)
    /\ LET r == parse_frame(rx_buffer)
       IN  /\ rx_buffer' = r.buf
           /\ ret' = [frame |-> r.frame, err |-> r.err,
                      header_crc |-> r.header_crc]
           /\ decoded' = IF r.frame # NoFrame THEN Append(decoded, r.frame)
                         ELSE decoded
    /\ UNCHANGED <<wire, segs, prog, sn, sn_result, bytewise, tool_vars>>
    /\ UNCHANGED station_vars

(***************************************************************************)
(* MstpSniffer.__init__ and MstpSimulator.__init__.                        *)
(***************************************************************************)
SnifferInit ==
    [state |-> "IDLE", buffer |-> <<>>, frame_count |-> 0, frame_type |-> 0,
     dst_addr |-> 0, src_addr |-> 0, data_len |-> 0, header_crc |-> 0,
     data |-> <<>>, data_crc |-> 0]

NoRet == [frame |-> NoFrame, err |-> "none", header_crc |-> None]

StationInit ==
    /\ known_masters = {}
    /\ next_station = None
    /\ state = "IDLE"
    /\ token_count = 0
    /\ frame_count = 0
    /\ tokens_received = 0
    /\ polls_received = 0
    /\ data_frames_received = 0
    /\ frames_sent = 0
    /\ rx_buffer = <<>>
    /\ pc = "loop"
    /\ cur = NoFrame
    /\ written = <<>>
    /\ handled = 0
    /\ discovery_log = [notified |-> 0, recomputed |-> 0]

(***************************************************************************)
(* MstpSniffer._complete_frame: count the frame, hand out its fields and   *)
(* reset the parser.  The returned pair (formatted line, payload) is       *)
(* modelled by the fields it is formatted from.                            *)
(***************************************************************************)
complete_frame(o) ==
    [sn |-> [o EXCEPT !.frame_count = o.frame_count + 1, !.state = "IDLE",
                      !.buffer = <<>>, !.data = <<>>],
     result |-> <<o.frame_type, o.dst_addr, o.src_addr,
                  IF Len(o.data) > 0 THEN o.data ELSE NoData>>]

(***************************************************************************)
(* MstpSniffer.process_byte as a function of the object and the byte.      *)
(***************************************************************************)
process_byte(o0, byte) ==
    LET o == [o0 EXCEPT !.buffer = Append(o0.buffer, byte)]
        none(x) == [sn |-> x, result |-> NoFrame]
    IN  IF o.state = "IDLE"
        THEN IF byte = PREAMBLE1
             THEN none([o EXCEPT !.state = "PREAMBLE", !.buffer = <<byte>>])
             ELSE none([o EXCEPT !.buffer = <<>>])
        ELSE IF o.state = "PREAMBLE"
        THEN IF byte = PREAMBLE2 THEN none([o EXCEPT !.state = "HEADER"])
             ELSE IF byte = PREAMBLE1 THEN none(o)
             ELSE none([o EXCEPT !.state = "IDLE", !.buffer = <<>>])
        ELSE IF o.state = "HEADER"
        THEN IF Len(o.buffer) = 8
             THEN LET h == [o EXCEPT !.frame_type = o.buffer[3],
                                     !.dst_addr = o.buffer[4],
                                     !.src_addr = o.buffer[5],
                                     !.data_len = Or(Shl(o.buffer[6], 8),
                                                     o.buffer[7]),
                                     !.header_crc = o.buffer[8]]
                      calc_crc == crc8(SubSeq(o.buffer, 3, 7))
                  IN  IF calc_crc # h.header_crc
                      THEN none([h EXCEPT !.state = "IDLE", !.buffer = <<>>])
                      ELSE IF h.data_len > 0
                      THEN none([h EXCEPT !.state = "DATA", !.data = <<>>])
                      ELSE complete_frame(h)
             ELSE none(o)
        ELSE \* DATA
             LET d == Append(o.data, byte)
             IN  IF Len(d) = o.data_len + 2
                 THEN complete_frame(
                        [o EXCEPT !.data_crc = Or(Shl(d[Len(d)], 8),
                                                  d[Len(d) - 1]),
                                  !.data = SubSeq(d, 1, Len(d) - 2)])
                 ELSE none([o EXCEPT !.data = d])

\* mstp_sniffer.main, lines 405-413: the next byte read goes to process_byte
SnifferByte ==
    /\ prog = "sniffer"
    /\ wire # <<>>
    /\ LET r == process_byte(sn, Head(wire))
       IN  /\ sn' = r.sn
           /\ sn_result' = IF r.result # NoFrame
                           THEN Append(sn_result, r.result) ELSE sn_result
    /\ wire' = Tail(wire)
    /\ UNCHANGED <<rx_buffer, segs, decoded, ret, prog, bytewise, tool_vars>>
    /\ UNCHANGED station_vars

\* mstp_sniffer.main, lines 405-413, over a whole byte string: the frames
\* process_byte returns, in order
RECURSIVE sniffer_frames(_, _)
sniffer_frames(o, bytes) ==
    IF bytes = <<>> THEN <<>>
    ELSE LET r == process_byte(o, Head(bytes))
         IN  (IF r.result # NoFrame THEN <<r.result>> ELSE <<>>)
                \o sniffer_frames(r.sn, Tail(bytes))

(***************************************************************************)
(* mstp_test_sender.crc8_header and build_mstp_frame: the encoder of the   *)
(* test sender, whose header CRC is the bitwise form.                      *)
(***************************************************************************)
sender_crc8_header(data) == 255 - crc8_loop(255, data)

build_mstp_frame(frame_type, dest_addr, src_addr, data) ==
    IF data = NoData
    THEN LET header == <<frame_type, dest_addr, src_addr, 0, 0>>
         IN  <<PREAMBLE1, PREAMBLE2>> \o header
                \o <<sender_crc8_header(header)>>
    ELSE LET data_len == Len(data)
             header == <<frame_type, dest_addr, src_addr,
                         And(Shr(data_len, 8), 255), And(data_len, 255)>>
             data_crc == crc16_data(data)
         IN  <<PREAMBLE1, PREAMBLE2>> \o header
                \o <<sender_crc8_header(header)>>
                \o data \o <<data_crc % 256, data_crc \div 256>>

(***************************************************************************)
(* Byte streams on the serial line: segments that are frames built by      *)
(* build_frame, or bytes that are not (line noise, damaged and foreign     *)
(* frames).                                                                *)
(***************************************************************************)
\* number of segments of a stream
MaxSegs == 3

\* payload length of the frames of the single-frame streams
MaxPayload == 2

FrameSeg(f) ==
    [kind |-> "frame", bytes |-> build_frame(f[1], f[2], f[3], f[4]),
     frame |-> <<f[1], f[2], f[3], IF Len(f[4]) = 0 THEN NoData ELSE f[4]>>]

NoiseSeg(b) == [kind |-> "noise", bytes |-> b, frame |-> NoFrame]

\* the last byte replaced by another one
Damage(b) == [b EXCEPT ![Len(b)] = (b[Len(b)] + 1) % 256]

StreamFrames == {<<FRAME_TOKEN, 3, 24, <<>>>>,
                 <<FRAME_BACNET_DATA_NOT_EXPECTING_REPLY, 3, 2, <<85, 255>>>>}

StreamNoise ==
    {<<0>>, <<85>>, <<255>>, <<85, 255>>,
     Damage(build_frame(FRAME_BACNET_DATA_NOT_EXPECTING_REPLY, 3, 2, <<1>>)),
     build_mstp_frame(FRAME_POLL_FOR_MASTER, 3, 6, NoData),
     Damage(build_mstp_frame(FRAME_BACNET_DATA_NOT_EXPECTING_REPLY, 3, 6, <<1>>))}

Segs == {FrameSeg(f) : f \in StreamFrames} \cup {NoiseSeg(b) : b \in StreamNoise}

PayloadBytes == {0, 85, 255}

CodecPayloads == UNION {[1..n -> PayloadBytes] : n \in 0..MaxPayload}

CodecFrames == {<<t, d, s, p>> : t \in {0, 7, 8, 255}, d \in {0, 255},
                                 s \in {0, 127}, p \in CodecPayloads}

\* streams of frames in which one byte of the header of the second frame
\* has changed on the way (byte 3 is the type, byte 8 the header CRC)
CorruptStreams ==
    {<<FrameSeg(a),
       NoiseSeg([FrameSeg(f).bytes EXCEPT ![i] = (@ + 1) % 256]),
       FrameSeg(b)>> : a \in StreamFrames, f \in StreamFrames,
                       b \in StreamFrames, i \in 3..8}

Streams == UNION {[1..n -> Segs] : n \in 1..MaxSegs}
              \cup {<<FrameSeg(f)>> : f \in CodecFrames}
              \cup CorruptStreams

RECURSIVE Flatten(_)
Flatten(ss) == IF ss = <<>> THEN <<>> ELSE Head(ss).bytes \o Flatten(Tail(ss))

RECURSIVE FramesOf(_)
FramesOf(ss) ==
    IF ss = <<>> THEN <<>>
    ELSE (IF Head(ss).kind = "frame" THEN <<Head(ss).frame>> ELSE <<>>)
            \o FramesOf(Tail(ss))

(***************************************************************************)
(* The encoders, the shared bus and the capture tool are not in use:       *)
(* nothing has been handed to an encoder, no further station is attached,  *)
(* and the capture loop has read nothing.                                  *)
(***************************************************************************)
NoEncoding == [called |-> FALSE]

CodecIdle == enc_in = NoEncoding /\ enc_out = NoEncoding

BusIdle == stations = <<>> /\ inbox = <<>>

\* mstp_capture.py lines 58-61
NewCapture ==
    [buffer |-> <<>>, frame_count |-> 0, std_match |-> 0, emp_match |-> 0]

CaptureIdle == capture = NewCapture

(***************************************************************************)
(* Specification Spec: the master station handles inbound frames.         *)
(***************************************************************************)
Init ==
    /\ mac \in Macs
    /\ StationInit
    /\ wire = <<>>
    /\ segs = <<>>
    /\ decoded = <<>>
    /\ ret = NoRet
    /\ prog = "simulator"
    /\ sn = SnifferInit
    /\ sn_result = <<>>
    /\ bytewise = TRUE
    /\ crc_input = <<>>
    /\ crcs = NoCrcs
    /\ CodecIdle
    /\ BusIdle
    /\ CaptureIdle

Next ==
    \/ \E t \in Types, d \in Peers \cup {mac}, s \in Peers \cup {mac},
          p \in Payloads :
          HandleFrame(t, d, s, p)
    \/ \E s \in Peers, p \in TestPayloads :
          HandleFrame(FRAME_TEST_REQUEST, mac, s, p)
    \/ HandleUseToken

Spec == Init /\ [][Next]_vars

(***************************************************************************)
(* Specification SpecFramer: a byte stream arrives on the serial line of   *)
(* the simulator (process_rx, parse_frame) or of the sniffer               *)
(* (process_byte).  The serial line hands over one byte or all it has.     *)
(***************************************************************************)
\* mstp_simulator.main: mac defaults to 4
DefaultMac == 4

FramerInit ==
    /\ mac = DefaultMac
    /\ StationInit
    /\ prog \in {"simulator", "sniffer"}
    /\ segs \in Streams
    /\ wire = Flatten(segs)
    /\ decoded = <<>>
    /\ ret = NoRet
    /\ sn = SnifferInit
    /\ sn_result = <<>>
    /\ bytewise = TRUE
    /\ crc_input = <<>>
    /\ crcs = NoCrcs
    /\ CodecIdle
    /\ BusIdle
    /\ CaptureIdle

FramerNext ==
    \/ \E n \in {1, Len(wire)} : ProcessRx(n)
    \/ ParseFrame
    \/ SnifferByte

SpecFramer == FramerInit /\ [][FramerNext]_vars

(***************************************************************************)
(* Specification SpecRun: MstpSimulator.run.  One iteration of the loop    *)
(* reads what is waiting on the serial line (n bytes, possibly none),      *)
(* calls parse_frame once and hands a returned frame to handle_frame.      *)
(***************************************************************************)
\* number of segments of a stream fed to the running simulator
MaxRunSegs == 2

\* variant: parse_frame is called until the buffer has nothing more to
\* give, the first frame returned is handled
RunLoop_drain(n) ==
    /\ prog = "simulator"
    /\ pc = "loop"
    /\ n >= 0 /\ n <= Len(wire)
    /\ LET r == parse_frame(rx_buffer \o SubSeq(wire, 1, n))
           a == parse_all(r.buf, <<>>)
       IN  /\ rx_buffer' = a.buf
           /\ ret' = [frame |-> r.frame, err |-> r.err,
                      header_crc |-> r.header_crc]
           /\ decoded' = IF r.frame # NoFrame
                         THEN Append(decoded, r.frame) \o a.frames
                         ELSE decoded \o a.frames
           /\ IF r.frame # NoFrame
              THEN handle_frame(r.frame[1], r.frame[2], r.frame[3],
                                r.frame[4])
              ELSE UNCHANGED station_vars
    /\ wire' = Drop(wire, n)
    /\ bytewise' = (bytewise /\ n <= 1)
    /\ UNCHANGED <<segs, prog, sn, sn_result, tool_vars>>

RunLoop(n) ==
    /\ prog = "simulator"
    /\ pc = "loop"
    /\ n >= 0 /\ n <= Len(wire)
    /\ LET r == parse_frame(rx_buffer \o SubSeq(wire, 1, n))
       IN  /\ rx_buffer' = r.buf
           /\ ret' = [frame |-> r.frame, err |-> r.err,
                      header_crc |-> r.header_crc]
           /\ decoded' = IF r.frame # NoFrame THEN Append(decoded, r.frame)
                         ELSE decoded
           /\ IF r.frame # NoFrame
              THEN handle_frame(r.frame[1], r.frame[2], r.frame[3],
                                r.frame[4])
              ELSE UNCHANGED station_vars
    /\ wire' = Drop(wire, n)
    /\ bytewise' = (bytewise /\ n <= 1)
    /\ UNCHANGED <<segs, prog, sn, sn_result, tool_vars>>

\* a type code that is no key of FRAME_NAMES (lines 35-44)
UnknownType == 200

\* frames sent to the running simulator (own address DefaultMac) with, last, a
\* frame of a type the station has no name for ...
RunFrames ==
    {<<FRAME_TOKEN, DefaultMac, 2, <<>>>>,
     <<FRAME_POLL_FOR_MASTER, DefaultMac, 5, <<>>>>,
     <<FRAME_TEST_REQUEST, DefaultMac, 2, <<1>>>>,
     <<FRAME_BACNET_DATA_NOT_EXPECTING_REPLY, BROADCAST, 6, <<85, 255, 0>>>>,
     <<UnknownType, DefaultMac, 12, <<>>>>}

\* ... and what else is on the line: a stray byte, a poll with a wrong
\* header CRC, a Test-Request with a wrong data CRC, and a data frame with a
\* wrong data CRC whose payload has the bytes of a poll
RunNoise ==
    {<<85>>,
     Damage(build_frame(FRAME_POLL_FOR_MASTER, DefaultMac, 9, NoData)),
     Damage(build_frame(FRAME_TEST_REQUEST, DefaultMac, 9, <<1>>)),
     Damage(build_frame(FRAME_BACNET_DATA_NOT_EXPECTING_REPLY, DefaultMac, 9,
                        build_frame(FRAME_POLL_FOR_MASTER, DefaultMac, 7,
                                    NoData)))}

RunSegs == {FrameSeg(f) : f \in RunFrames} \cup {NoiseSeg(b) : b \in RunNoise}

RunStreams == UNION {[1..n -> RunSegs] : n \in 1..MaxRunSegs}

RunInit ==
    /\ mac = DefaultMac
    /\ StationInit
    /\ prog = "simulator"
    /\ segs \in RunStreams
    /\ wire = Flatten(segs)
    /\ decoded = <<>>
    /\ ret = NoRet
    /\ sn = SnifferInit
    /\ sn_result = <<>>
    /\ bytewise = TRUE
    /\ crc_input = <<>>
    /\ crcs = NoCrcs
    /\ CodecIdle
    /\ BusIdle
    /\ CaptureIdle

\* ser.in_waiting when process_rx looks: nothing, one byte, or all that is
\* left of the stream
RunNext ==
    \/ \E n \in {0, 1, Len(wire)} : RunLoop(n)
    \/ HandleUseToken

SpecRun == RunInit /\ [][RunNext]_vars

(***************************************************************************)
(* Specification SpecCrc: the CRC-8 functions of the scripts are called on *)
(* the same bytes, as crc_test.py, crc_parallel.py and crc_real_test.py do *)
(* for their vectors.                                                      *)
(***************************************************************************)
\* length of the byte sequences handed to the CRC-8 functions
MaxCrcLen == 5

CrcBytes == {0, 3, 6, 255}

\* crc_test.py lines 47-53 and 110-111: the headers it compares
test_headers ==
    {<<0, 6, 3, 0, 0>>, <<1, 6, 3, 0, 0>>, <<2, 3, 6, 0, 0>>,
     <<0, 2, 6, 0, 0>>, <<0, 6, 2, 0, 0>>}

\* crc_parallel.py lines 28-37 (the same list as crc_real_test.py lines
\* 21-30): headers seen on the bus, each with the CRC byte that followed
real_frames ==
    {<<<<1, 3, 6, 0, 0>>, 177>>, <<<<1, 124, 6, 0, 0>>, 242>>,
     <<<<1, 0, 6, 0, 0>>, 41>>, <<<<1, 4, 6, 0, 0>>, 11>>,
     <<<<1, 5, 6, 0, 0>>, 130>>, <<<<1, 7, 6, 0, 0>>, 147>>,
     <<<<1, 8, 6, 0, 0>>, 109>>, <<<<1, 11, 6, 0, 0>>, 245>>}

CrcInputs ==
    UNION {[1..n -> CrcBytes] : n \in 0..MaxCrcLen}
        \cup {<<b>> : b \in 0..255}
        \cup test_headers
        \cup {v[1] : v \in real_frames}

\* every CRC-8 function of the source applied to the same bytes
Crc8Compare ==
    /\ crcs = NoCrcs
    /\ crcs' = [simulator |-> crc8_header(crc_input),
                sniffer |-> crc8(crc_input),
                sender |-> sender_crc8_header(crc_input),
                python |-> crc8_header_python(crc_input),
                rust_style |-> crc8_header_rust_style(crc_input),
                parallel |-> crc8_parallel(crc_input),
                ashrae |-> crc8_ashrae(crc_input),
                standard |-> calc_standard_crc(crc_input)]
    /\ UNCHANGED crc_input
    /\ UNCHANGED station_vars
    /\ UNCHANGED <<rx_buffer, wire, segs, decoded, ret, prog, sn, sn_result,
                   bytewise, codec_vars, bus_vars, capture_vars>>

CrcInit ==
    /\ mac = DefaultMac
    /\ StationInit
    /\ prog = "simulator"
    /\ segs = <<>>
    /\ wire = <<>>
    /\ decoded = <<>>
    /\ ret = NoRet
    /\ sn = SnifferInit
    /\ sn_result = <<>>
    /\ bytewise = TRUE
    /\ crc_input \in CrcInputs
    /\ crcs = NoCrcs
    /\ CodecIdle
    /\ BusIdle
    /\ CaptureIdle

CrcNext == Crc8Compare

SpecCrc == CrcInit /\ [][CrcNext]_vars

(***************************************************************************)
(* Specification SpecCodec: the encoders and the CRC functions are called  *)
(* on the same arguments, and the CRC functions once more on the header    *)
(* and the payload with one bit changed.  crc16_verify.py does the first   *)
(* for the payload of a captured Who-Is.                                   *)
(***************************************************************************)
\* crc16_verify.calculate_data_crc_ccitt: (~crc) & 0xFFFF
calculate_data_crc_ccitt(data) == And(65535 - crc16_loop(65535, data), 65535)

\* crc16_verify.py lines 66-67: the data of the first captured Who-Is
who_is_data ==
    <<1, 40, 255, 255, 0, 39, 17, 6, 192, 168, 142, 2, 186, 192, 13, 16, 8>>

\* crc16_verify.py lines 104-105: the two bytes that followed it on the bus
crc_from_frame == [low |-> 169, high |-> 208]

\* length of the payloads handed to the encoders
MaxEncLen == 2

EncBytes == {0, 85, 255}

\* None, b'' and longer payloads
EncPayloads ==
    {NoData} \cup UNION {[1..n -> EncBytes] : n \in 0..MaxEncLen}
        \cup {who_is_data}

\* the bytes object the CRC-16 runs over
bytes_of(data) == IF data = NoData THEN <<>> ELSE data

\* bit k of the byte string changed (bit 0 is the low bit of the first byte)
FlipBit(b, k) == [b EXCEPT ![k \div 8 + 1] = Xor(@, 2 ^ (k % 8))]

\* bit positions of a header, and of the payload where that is longer
BitsOf(data) ==
    0..((IF Len(bytes_of(data)) > 5 THEN 8 * Len(bytes_of(data)) ELSE 40) - 1)

EncInputs ==
    UNION {{[called |-> TRUE, frame_type |-> t, dest |-> d, src |-> s,
             data |-> p, bit |-> k] :
              t \in {FRAME_POLL_FOR_MASTER,
                      FRAME_BACNET_DATA_NOT_EXPECTING_REPLY, 200},
              d \in {3, BROADCAST}, s \in {2, 6}, k \in BitsOf(p)} :
           p \in EncPayloads}

Encode ==
    /\ enc_in # NoEncoding
    /\ enc_out = NoEncoding
    /\ LET frame == build_frame(enc_in.frame_type, enc_in.dest, enc_in.src,
                                enc_in.data)
           h == SubSeq(frame, 3, 7)
           p == bytes_of(enc_in.data)
       IN  enc_out' =
             [called |-> TRUE,
              frame |-> frame,
              sender_frame |-> build_mstp_frame(enc_in.frame_type,
                                                enc_in.dest, enc_in.src,
                                                enc_in.data),
              crc8 |-> crc8_header(h),
              crc16 |-> crc16_data(p),
              ccitt |-> calculate_data_crc_ccitt(p),
              flipped_crc8 |-> IF enc_in.bit < 40
                               THEN crc8_header(FlipBit(h, enc_in.bit))
                               ELSE None,
              flipped_crc16 |-> IF enc_in.bit < 8 * Len(p)
                                THEN crc16_data(FlipBit(p, enc_in.bit))
                                ELSE None]
    /\ UNCHANGED enc_in
    /\ UNCHANGED station_vars
    /\ UNCHANGED <<rx_buffer, wire, segs, decoded, ret, prog, sn, sn_result,
                   bytewise, crc_vars, bus_vars, capture_vars>>

CodecInit ==
    /\ mac = DefaultMac
    /\ StationInit
    /\ prog = "simulator"
    /\ segs = <<>>
    /\ wire = <<>>
    /\ decoded = <<>>
    /\ ret = NoRet
    /\ sn = SnifferInit
    /\ sn_result = <<>>
    /\ bytewise = TRUE
    /\ crc_input = <<>>
    /\ crcs = NoCrcs
    /\ enc_in \in EncInputs
    /\ enc_out = NoEncoding
    /\ BusIdle
    /\ CaptureIdle

CodecNext == Encode

SpecCodec == CodecInit /\ [][CodecNext]_vars

(***************************************************************************)
(* Specification SpecBus: several MstpSimulator objects on one bus.  What  *)
(* a station writes to its serial port arrives, frame by frame and in      *)
(* order, at the serial port of every other station; each station runs its *)
(* own loop (read, parse_frame, handle_frame) at its own pace.  The bus    *)
(* starts with one Token on it, addressed to one of the stations.          *)
(***************************************************************************)
\* number of frames the stations send in one behaviour
MaxBusSends == 6

\* the addresses of the stations on the bus (argv[3] of each)
BusMacs == {4, 5, 9}

\* who the first Token comes from: one of the stations, a master that is
\* not among them, or an address that is no master's
TokenSources == BusMacs \cup {100, 200}

\* MstpSimulator.__init__
NewStation(m) ==
    [mac |-> m, known_masters |-> {}, next_station |-> None,
     state |-> "IDLE", token_count |-> 0, frame_count |-> 0,
     tokens_received |-> 0, polls_received |-> 0,
     data_frames_received |-> 0, frames_sent |-> 0, rx_buffer |-> <<>>,
     pc |-> "loop"]

\* build_frame for the frames without data that go over the bus, worked out
\* once for every type a station sends, every destination and every source
bus_frame ==
    [t \in {FRAME_TOKEN, FRAME_POLL_FOR_MASTER, FRAME_REPLY_TO_POLL,
            FRAME_TEST_RESPONSE},
     d \in 0..255, s \in TokenSources |-> build_frame(t, d, s, NoData)]

\* what parse_frame returns for a buffer that holds one of these frames,
\* worked out once as well
bus_parse ==
    [b \in {bus_frame[x] : x \in DOMAIN bus_frame} |-> parse_frame(b)]

\* send_frame of station st: the frame written and the counter
station_send(st, frame_type, dest, data) ==
    [st |-> [st EXCEPT !.frames_sent = @ + 1],
     out |-> <<IF data = NoData
                  /\ <<frame_type, dest, st.mac>> \in DOMAIN bus_frame
               THEN bus_frame[frame_type, dest, st.mac]
               ELSE build_frame(frame_type, dest, st.mac, data)>>]

\* handle_frame of station st, up to the call of handle_use_token
station_handle_frame(st, frame_type, dest, src, data) ==
    LET ms == discover_from_frame(
                 [km |-> st.known_masters, ns |-> st.next_station,
                  notified |-> 0, recomputed |-> 0],
                 st.mac, frame_type, dest, src)
        d == [st EXCEPT !.known_masters = ms.km, !.next_station = ms.ns]
    IN  IF dest # st.mac /\ dest # BROADCAST THEN [st |-> d, out |-> <<>>]
        ELSE IF frame_type = FRAME_TOKEN
        THEN [st |-> [d EXCEPT !.tokens_received = @ + 1,
                               !.state = "USE_TOKEN", !.pc = "use_token"],
              out |-> <<>>]
        ELSE IF frame_type = FRAME_POLL_FOR_MASTER
        THEN station_send([d EXCEPT !.polls_received = @ + 1],
                          FRAME_REPLY_TO_POLL, src, NoData)
        ELSE IF frame_type = FRAME_BACNET_DATA_EXPECTING_REPLY
                \/ frame_type = FRAME_BACNET_DATA_NOT_EXPECTING_REPLY
        THEN [st |-> [d EXCEPT !.data_frames_received = @ + 1], out |-> <<>>]
        ELSE IF frame_type = FRAME_TEST_REQUEST
        THEN station_send(d, FRAME_TEST_RESPONSE, src, data)
        ELSE [st |-> d, out |-> <<>>]

\* variant: the station stays in the token-holding state after passing on
station_use_token_hold(st) ==
    LET c == [st EXCEPT !.token_count = @ + 1, !.frame_count = 0,
                        !.pc = "loop"]
    IN  IF st.next_station # None
        THEN station_send(c, FRAME_TOKEN, st.next_station, NoData)
        ELSE station_send(c, FRAME_POLL_FOR_MASTER,
                          (st.mac + 1) % (max_master + 1), NoData)

\* handle_use_token of station st
station_use_token(st) ==
    LET c == [st EXCEPT !.token_count = @ + 1, !.frame_count = 0,
                        !.state = "IDLE", !.pc = "loop"]
    IN  IF st.next_station # None
        THEN station_send(c, FRAME_TOKEN, st.next_station, NoData)
        ELSE station_send(c, FRAME_POLL_FOR_MASTER,
                          (st.mac + 1) % (max_master + 1), NoData)

\* frames sent on the bus so far
RECURSIVE SentBy(_)
SentBy(ms) ==
    IF ms = {} THEN 0
    ELSE LET m == CHOOSE x \in ms : TRUE
         IN  stations[m].frames_sent + SentBy(ms \ {m})

\* one iteration of run in station m: it reads the next frame waiting at
\* its port, calls parse_frame and hands a returned frame to handle_frame;
\* what it writes reaches the other stations
BusRun(m) ==
    /\ stations[m].pc = "loop"
    /\ inbox[m] # <<>>
    /\ LET st == stations[m]
           rx == st.rx_buffer \o Head(inbox[m])
           r == IF rx \in DOMAIN bus_parse THEN bus_parse[rx]
                ELSE parse_frame(rx)
           b == [st EXCEPT !.rx_buffer = r.buf]
           h == IF r.frame = NoFrame THEN [st |-> b, out |-> <<>>]
                ELSE station_handle_frame(b, r.frame[1], r.frame[2],
                                          r.frame[3], r.frame[4])
       IN  /\ h.out # <<>> => SentBy(BusMacs) < MaxBusSends
           /\ stations' = [stations EXCEPT ![m] = h.st]
           /\ inbox' = [x \in BusMacs |->
                          IF x = m THEN Tail(inbox[m]) ELSE inbox[x] \o h.out]
    /\ UNCHANGED station_vars
    /\ UNCHANGED <<rx_buffer, wire, segs, decoded, ret, prog, sn, sn_result,
                   bytewise, crc_vars, codec_vars, capture_vars>>

\* station m, holding the token, runs handle_use_token
BusUseToken(m) ==
    /\ stations[m].pc = "use_token"
    /\ SentBy(BusMacs) < MaxBusSends
    /\ LET h == station_use_token(stations[m])
       IN  /\ stations' = [stations EXCEPT ![m] = h.st]
           /\ inbox' = [x \in BusMacs |->
                          IF x = m THEN inbox[m] ELSE inbox[x] \o h.out]
    /\ UNCHANGED station_vars
    /\ UNCHANGED <<rx_buffer, wire, segs, decoded, ret, prog, sn, sn_result,
                   bytewise, crc_vars, codec_vars, capture_vars>>

BusInit ==
    /\ mac = DefaultMac
    /\ StationInit
    /\ prog = "simulator"
    /\ segs = <<>>
    /\ wire = <<>>
    /\ decoded = <<>>
    /\ ret = NoRet
    /\ sn = SnifferInit
    /\ sn_result = <<>>
    /\ bytewise = TRUE
    /\ crc_input = <<>>
    /\ crcs = NoCrcs
    /\ CodecIdle
    /\ CaptureIdle
    /\ stations = [m \in BusMacs |-> NewStation(m)]
    /\ \E d \in BusMacs, s \in TokenSources :
          /\ s # d
          /\ inbox = [x \in BusMacs |->
                        IF x = s THEN <<>>
                        ELSE <<build_frame(FRAME_TOKEN, d, s, NoData)>>]

BusNext == \E m \in BusMacs : BusRun(m) \/ BusUseToken(m)

SpecBus == BusInit /\ [][BusNext]_vars

\* run of every station is a loop of its own process that never ends: a
\* station that can read a frame or pass the token on eventually does
BusFair ==
    \A m \in BusMacs : WF_vars(BusRun(m)) /\ WF_vars(BusUseToken(m))

SpecBusFair == BusInit /\ [][BusNext]_vars /\ BusFair

(***************************************************************************)
(* Specification SpecRing: the same bus when every station has heard of    *)
(* every other one (Tokens addressed to them, read before they joined).    *)
(* One Token is on the bus, from one of the stations or from an address    *)
(* that is no master's.                                                    *)
(***************************************************************************)
RingSources == BusMacs \cup {200}

RingStation(m) ==
    [NewStation(m) EXCEPT
        !.known_masters = BusMacs \ {m},
        !.next_station = update_next_station(BusMacs \ {m}, m)]

RingInit ==
    /\ mac = DefaultMac
    /\ StationInit
    /\ prog = "simulator"
    /\ segs = <<>>
    /\ wire = <<>>
    /\ decoded = <<>>
    /\ ret = NoRet
    /\ sn = SnifferInit
    /\ sn_result = <<>>
    /\ bytewise = TRUE
    /\ crc_input = <<>>
    /\ crcs = NoCrcs
    /\ CodecIdle
    /\ CaptureIdle
    /\ stations = [m \in BusMacs |-> RingStation(m)]
    /\ \E d \in BusMacs, s \in RingSources :
          /\ s # d
          /\ inbox = [x \in BusMacs |->
                        IF x = s THEN <<>>
                        ELSE <<build_frame(FRAME_TOKEN, d, s, NoData)>>]

SpecRing == RingInit /\ [][BusNext]_vars /\ BusFair

(***************************************************************************)
(* Specification SpecCapture: the loop of src/mstp_capture.py, the CRC     *)
(* verification tool.  One iteration reads up to 256 bytes from the serial *)
(* line (none when the read times out) and then runs the inner loop over   *)
(* the buffer, which counts a frame as soon as its 8 header bytes are      *)
(* there.                                                                   *)
(***************************************************************************)
\* number of segments of a captured stream
MaxCaptureSegs == 2

\* frame_count up to which the loop is followed
MaxCaptured == 6

\* int('{:08b}'.format(x)[::-1], 2): the n bits of x in reverse order
RECURSIVE reverse_bits(_, _)
reverse_bits(x, n) ==
    IF n = 0 THEN 0
    ELSE (x % 2) * 2 ^ (n - 1) + reverse_bits(x \div 2, n - 1)

\* mstp_capture.py lines 25-29: eight shifts to the left
RECURSIVE empirical_shift(_, _)
empirical_shift(crc, n) ==
    IF n = 0 THEN crc
    ELSE empirical_shift(IF crc >= 128
                         THEN And(Xor(Shl(crc, 1), 129), 255)
                         ELSE And(Shl(crc, 1), 255), n - 1)

RECURSIVE empirical_loop(_, _)
empirical_loop(crc, data) ==
    IF data = <<>> THEN crc
    ELSE LET c == empirical_shift(Xor(crc, reverse_bits(Head(data), 8)), 8)
         IN  IF c >= 0 THEN empirical_loop(c, Tail(data)) ELSE c

calc_empirical_crc(data) == Xor(reverse_bits(empirical_loop(255, data), 8), 255)

\* buffer.index(0x55), from 0; the buffer holds a 0x55
index_of_preamble(b) ==
    CHOOSE i \in 0..(Len(b) - 1) :
        b[i + 1] = PREAMBLE1 /\ \A j \in 1..i : b[j] # PREAMBLE1

\* lines 69-115: the inner loop, run until it ends or breaks
RECURSIVE capture_parse(_)
capture_parse(c) ==
    IF Len(c.buffer) < 8 THEN c
    ELSE IF \A i \in 1..Len(c.buffer) : c.buffer[i] # PREAMBLE1
    THEN [c EXCEPT !.buffer = <<>>]
    ELSE LET b == Drop(c.buffer, index_of_preamble(c.buffer))
         IN  IF Len(b) < 2 \/ b[2] # PREAMBLE2
             THEN capture_parse([c EXCEPT !.buffer = Drop(b, 1)])
             ELSE IF Len(b) < 8 THEN [c EXCEPT !.buffer = b]
             ELSE LET length == Or(Shl(b[6], 8), b[7])
                      rx_crc == b[8]
                      header == SubSeq(b, 3, 7)
                      std_crc == calc_standard_crc(header)
                      emp_crc == calc_empirical_crc(header)
                      frame_size == 8 + (IF length > 0 THEN length + 2 ELSE 0)
                      n == [c EXCEPT
                              !.frame_count = @ + 1,
                              !.std_match = IF rx_crc = std_crc THEN @ + 1
                                            ELSE @,
                              !.emp_match = IF rx_crc # std_crc
                                               /\ rx_crc = emp_crc
                                            THEN @ + 1 ELSE @]
                  IN  IF Len(b) >= frame_size
                      THEN capture_parse([n EXCEPT
                                            !.buffer = Drop(b, frame_size)])
                      ELSE [n EXCEPT !.buffer = b]

\* one iteration of the outer loop, lines 64-115: ser.read(256) returns n
\* bytes, the inner loop runs
CaptureLoop(n) ==
    /\ prog = "capture"
    /\ n <= Len(wire) /\ n <= 256
    /\ n = 0 => wire # <<>>
    /\ capture.frame_count < MaxCaptured
    /\ capture' = capture_parse(
                     [capture EXCEPT !.buffer = @ \o SubSeq(wire, 1, n)])
    /\ wire' = Drop(wire, n)
    /\ UNCHANGED <<rx_buffer, segs, decoded, ret, prog, sn, sn_result,
                   bytewise, crc_vars, codec_vars, bus_vars>>
    /\ UNCHANGED station_vars

\* what is on the line: frames of the simulator with and without data, a
\* frame of the test sender, and a byte that belongs to no frame
CaptureSegs ==
    {FrameSeg(<<FRAME_TOKEN, 3, 24, <<>>>>),
     FrameSeg(<<FRAME_BACNET_DATA_NOT_EXPECTING_REPLY, 3, 2, <<1, 2>>>>),
     [kind |-> "frame",
      bytes |-> build_mstp_frame(FRAME_POLL_FOR_MASTER, 3, 6, NoData),
      frame |-> <<FRAME_POLL_FOR_MASTER, 3, 6, NoData>>],
     NoiseSeg(<<0>>)}

CaptureStreams == UNION {[1..n -> CaptureSegs] : n \in 1..MaxCaptureSegs}

CaptureInit ==
    /\ mac = DefaultMac
    /\ StationInit
    /\ prog = "capture"
    /\ segs \in CaptureStreams
    /\ wire = Flatten(segs)
    /\ decoded = <<>>
    /\ ret = NoRet
    /\ sn = SnifferInit
    /\ sn_result = <<>>
    /\ bytewise = TRUE
    /\ crc_input = <<>>
    /\ crcs = NoCrcs
    /\ CodecIdle
    /\ BusIdle
    /\ capture = NewCapture

CaptureNext == \E n \in {0, 1, 8, Len(wire)} : CaptureLoop(n)

SpecCapture == CaptureInit /\ [][CaptureNext]_vars

(***************************************************************************)
(* Properties of the master station (specification Spec).                  *)
(***************************************************************************)
NextAfter(km, own) ==
    IF km = {} THEN None
    ELSE IF \E m \in km : m > own
         THEN SetMin({m \in km : m > own})
         ELSE SetMin(km)

\* C1: next_station is the smallest known master above the own address, or
\* the smallest known master when none is above; it is None exactly when
\* known_masters is empty.
C1_NextStation ==
    /\ next_station = NextAfter(known_masters, mac)
    /\ (next_station = None) <=> (known_masters = {})

C1_Witness == mac = 10 /\ known_masters = {2, 5} /\ next_station = 2

ValidMaster(a) == a # mac /\ a <= max_master

\* C2: after handle_frame the frame's source is a known master whenever it
\* is not the own address and is at most max_master, whatever the frame's
\* destination and type; the destination of a Token is recorded under the
\* same conditions; Token (dest 5, src 2) at a fresh station 3 gives
\* known_masters = {2, 5} and next_station = 5.
C2_Discovery ==
    handled > 0 =>
        /\ ValidMaster(cur[3]) => cur[3] \in known_masters
        /\ (cur[1] = FRAME_TOKEN /\ ValidMaster(cur[2]))
              => cur[2] \in known_masters
        /\ (mac = 3 /\ handled = 1 /\ cur[1] = FRAME_TOKEN
              /\ cur[2] = 5 /\ cur[3] = 2)
              => (known_masters = {2, 5} /\ next_station = 5)

C2_Witness ==
    /\ mac = 3 /\ handled = 1
    /\ cur = <<FRAME_TOKEN, 5, 2, NoData>>
    /\ known_masters = {2, 5}
    /\ written = <<>>

\* C7: handling a Poll-For-Master addressed to the station writes exactly one
\* frame, a Reply-To-Poll-For-Master without payload from the own address to
\* the poll's source, and the station is IDLE before and after.
C7_PollReply ==
    [][(handled' = handled + 1 /\ cur'[1] = FRAME_POLL_FOR_MASTER
            /\ cur'[2] = mac)
        => /\ written' = <<build_frame(FRAME_REPLY_TO_POLL, cur'[3], mac, <<>>)>>
           /\ frames_sent' = frames_sent + 1
           /\ state = "IDLE" /\ state' = "IDLE"
           /\ pc' = "loop"]_vars

C7_Witness ==
    /\ pc = "loop" /\ handled > 0
    /\ cur[1] = FRAME_POLL_FOR_MASTER /\ cur[2] = mac /\ cur[3] = 2
    /\ Len(written) = 1
    /\ written[1][3] = FRAME_REPLY_TO_POLL /\ written[1][4] = 2
    /\ polls_received > 0

\* C8: a Token addressed to the station puts it in the token-holding state;
\* with next_station known it then writes exactly one Token frame, without
\* payload, from the own address to next_station and is IDLE again.
C8_TokenPass ==
    [][/\ (handled' = handled + 1 /\ cur'[1] = FRAME_TOKEN /\ cur'[2] = mac)
          => (state' = "USE_TOKEN" /\ pc' = "use_token" /\ written' = <<>>)
       /\ (pc = "use_token" /\ next_station # None)
          => /\ state = "USE_TOKEN"
             /\ written' = <<build_frame(FRAME_TOKEN, next_station, mac, <<>>)>>
             /\ frames_sent' = frames_sent + 1
             /\ state' = "IDLE"
             /\ pc' = "loop"]_vars

C8_Witness ==
    /\ pc = "loop" /\ state = "IDLE" /\ tokens_received > 0
    /\ cur[1] = FRAME_TOKEN /\ cur[2] = mac
    /\ next_station = 5
    /\ Len(written) = 1
    /\ written[1][3] = FRAME_TOKEN /\ written[1][4] = 5 /\ written[1][5] = mac

\* C9: holding the token with next_station unknown (no known master) the
\* station writes exactly one Poll-For-Master to (own + 1) mod
\* (max_master + 1), address 0 when own = max_master, writes no Token, and is
\* IDLE again.
C9_PollFallback ==
    [][(pc = "use_token" /\ next_station = None)
        => /\ known_masters = {}
           /\ written' = <<build_frame(FRAME_POLL_FOR_MASTER,
                                       (mac + 1) % (max_master + 1), mac, <<>>)>>
           /\ (mac = max_master => written'[1][4] = 0)
           /\ frames_sent' = frames_sent + 1
           /\ state' = "IDLE"
           /\ pc' = "loop"]_vars

C9_Witness ==
    /\ pc = "loop" /\ state = "IDLE" /\ mac = max_master
    /\ tokens_received > 0 /\ cur[1] = FRAME_TOKEN
    /\ known_masters = {}
    /\ Len(written) = 1
    /\ written[1][3] = FRAME_POLL_FOR_MASTER /\ written[1][4] = 0


(***************************************************************************)
(* Properties of the framers (specification SpecFramer).                   *)
(***************************************************************************)
Last(q) == q[Len(q)]

DataLen(f) == IF f[4] = NoData THEN 0 ELSE Len(f[4])

HeaderOf(f) == <<f[1], f[2], f[3], DataLen(f) \div 256, DataLen(f) % 256>>

\* the whole stream has been read and parse_frame has nothing left to do
Done == prog = "simulator" /\ wire = <<>> /\ Settled(rx_buffer)

\* C3: whenever parse_frame returns a tuple, or process_byte a result, the
\* header CRC byte that was received equals the framer's CRC-8 over the five
\* header bytes of the frame it hands out.
C3_HeaderCrcValid ==
    [][/\ Len(decoded') > Len(decoded)
          => ret'.header_crc = crc8_header(HeaderOf(Last(decoded')))
       /\ Len(sn_result') > Len(sn_result)
          => /\ sn'.header_crc = crc8(HeaderOf(Last(sn_result')))
             /\ sn'.header_crc
                  = crc8(<<sn'.frame_type, sn'.dst_addr, sn'.src_addr,
                           sn'.data_len \div 256, sn'.data_len % 256>>)]_vars

C3_Witness ==
    /\ prog = "simulator"
    /\ Len(segs) = 3 /\ segs[1].kind = "noise" /\ segs[2].kind = "frame"
    /\ ret.frame # NoFrame
    /\ decoded = <<segs[2].frame>>
    /\ ret.header_crc = segs[2].bytes[8]

\* C4: the bytes of build_frame(type, dest, src, payload), alone in the
\* receive buffer, make parse_frame return (type, dest, src, payload), an
\* empty payload as None, log no CRC error and leave the buffer empty.
C4_RoundTrip ==
    [][(prog = "simulator" /\ decoded = <<>> /\ segs[1].kind = "frame"
            /\ rx_buffer = segs[1].bytes)
        => /\ decoded' = <<segs[1].frame>>
           /\ ret'.err = "none"
           /\ rx_buffer' = <<>>]_vars

C4_Witness ==
    /\ prog = "simulator" /\ Len(segs) = 1 /\ segs[1].kind = "frame"
    /\ segs[1].frame = <<255, 255, 127, <<85, 255>>>>
    /\ decoded = <<segs[1].frame>>
    /\ wire = <<>> /\ rx_buffer = <<>>

\* positions of the stream that hold noise
RECURSIVE NoiseMask(_)
NoiseMask(ss) ==
    IF ss = <<>> THEN <<>>
    ELSE [i \in 1..Len(Head(ss).bytes) |-> Head(ss).kind = "noise"]
            \o NoiseMask(Tail(ss))

\* some 0x55 in the noise is immediately followed by a 0xFF of the noise
NoisePreamble(ss) ==
    LET w == Flatten(ss)
        m == NoiseMask(ss)
    IN  \E i \in 1..(Len(w) - 1) :
            w[i] = PREAMBLE1 /\ w[i + 1] = PREAMBLE2 /\ m[i] /\ m[i + 1]

\* C5 as claimed: whatever the noise, parsing the stream to the end returns
\* exactly the frames that were put into it, in order.
C5_ExactFrames == Done => decoded = FramesOf(segs)

\* C5 as amended: the same, for noise in which no 0x55 is immediately
\* followed by 0xFF.
C5_ExactFramesCleanNoise ==
    (Done /\ ~NoisePreamble(segs)) => decoded = FramesOf(segs)

C5_Witness ==
    /\ Done /\ ~NoisePreamble(segs)
    /\ Len(segs) = 3
    /\ segs[1].bytes = <<85>> /\ segs[2].kind = "frame"
    /\ segs[3].bytes = <<255>>
    /\ decoded = <<segs[2].frame>>

\* C6 as claimed: reading the stream one byte at a time gives the frames and
\* the final buffer of reading it all at once.
C6_ChunkingSame ==
    (Done /\ bytewise)
        => /\ decoded = parse_all(Flatten(segs), <<>>).frames
           /\ rx_buffer = parse_all(Flatten(segs), <<>>).buf

\* C6 as amended: however the stream is cut into reads, the frames are
\* those of reading it all at once.
C6_ChunkingSameFrames ==
    Done => decoded = parse_all(Flatten(segs), <<>>).frames

C6_Witness ==
    /\ Done /\ bytewise
    /\ Len(decoded) > 0
    /\ decoded = parse_all(Flatten(segs), <<>>).frames
    /\ rx_buffer # parse_all(Flatten(segs), <<>>).buf

\* the buffer starts with a frame whose header CRC is right, whose payload
\* and data CRC are all there, and whose data CRC is wrong
BadDataCrcFrame(b) ==
    /\ Len(b) >= 8
    /\ b[1] = PREAMBLE1 /\ b[2] = PREAMBLE2
    /\ b[8] = crc8_header(SubSeq(b, 3, 7))
    /\ LET L == b[6] * 256 + b[7]
       IN  /\ L > 0
           /\ Len(b) >= 8 + L + 2
           /\ b[8 + L + 1] + 256 * b[8 + L + 2]
                 # crc16_data(SubSeq(b, 9, 8 + L))

\* C10: such a frame is still returned, flagged as having a bad data CRC,
\* and all its 8 + length + 2 bytes leave the buffer.
C10_BadDataCrcDelivered ==
    [][(prog = "simulator" /\ BadDataCrcFrame(rx_buffer))
        => /\ Len(decoded') = Len(decoded) + 1
           /\ ret'.err = "data"
           /\ rx_buffer' = Drop(rx_buffer, 8 + rx_buffer[6] * 256
                                             + rx_buffer[7] + 2)]_vars

(***************************************************************************)
(* Properties of the running simulator (specification SpecRun).            *)
(***************************************************************************)
\* what handle_frame can change and what it can send
StationEffects ==
    <<known_masters, next_station, state, token_count, frame_count,
      tokens_received, polls_received, data_frames_received, frames_sent,
      written, handled>>

\* the bytes parse_frame had before it in the iteration now taken
ParsedBuffer == rx_buffer \o SubSeq(wire, 1, Len(wire) - Len(wire'))

\* C11: whenever run hands a frame to handle_frame, the bytes parse_frame
\* took it from are those of a frame with the right header CRC-8 and, when
\* it has a payload, the right data CRC-16; an iteration in which parse_frame
\* met a header or data CRC error changes neither known_masters,
\* next_station, state nor any counter and writes nothing to the line.
C11_OnlyValidFramesHandled ==
    [][/\ handled' # handled
          => /\ ret'.frame = cur'
             /\ ret'.header_crc = crc8_header(HeaderOf(cur'))
             /\ LET F == <<PREAMBLE1, PREAMBLE2>> \o HeaderOf(cur')
                            \o <<crc8_header(HeaderOf(cur'))>>
                            \o (IF cur'[4] = NoData THEN <<>>
                                ELSE cur'[4] \o <<crc16_data(cur'[4]) % 256,
                                                  crc16_data(cur'[4]) \div 256>>)
                IN  \E p \in 0..(Len(ParsedBuffer) - Len(F)) :
                       /\ SubSeq(ParsedBuffer, p + 1, p + Len(F)) = F
                       /\ rx_buffer' = Drop(ParsedBuffer, p + Len(F))
       /\ (pc = "loop" /\ ret'.err # "none")
          => /\ ret'.frame = NoFrame
             /\ UNCHANGED StationEffects]_vars

C11_Witness ==
    /\ Len(segs) = 2
    /\ segs[1].bytes = Damage(build_frame(FRAME_TEST_REQUEST, DefaultMac, 9,
                                          <<1>>))
    /\ segs[2].kind = "frame" /\ segs[2].frame[1] = FRAME_POLL_FOR_MASTER
    /\ wire = <<>>
    /\ handled = 1 /\ cur = segs[2].frame
    /\ known_masters = {5} /\ polls_received = 1 /\ frames_sent = 1
    /\ Len(written) = 1 /\ written[1][4] = 5

(***************************************************************************)
(* Further properties of the master station (specification Spec).          *)
(***************************************************************************)
\* C12: known_masters never holds the own address, nor an address above
\* max_master, hence never the broadcast address, whatever the source and
\* destination of the frames handled.
C12_KnownMastersValid ==
    /\ mac \notin known_masters
    /\ \A a \in known_masters : a >= 0 /\ a <= max_master /\ a # BROADCAST

C12_Witness ==
    /\ handled = 2
    /\ cur = <<FRAME_TOKEN, 128, BROADCAST, NoData>>
    /\ known_masters = {5}
    /\ next_station = 5

\* C13: no step of the station removes an address from known_masters.
C13_Monotonic == [][known_masters \subseteq known_masters']_vars

C13_Witness ==
    /\ handled = 2
    /\ cur = <<FRAME_BACNET_DATA_EXPECTING_REPLY, mac, 5, <<1>>>>
    /\ known_masters = {2, 5}
    /\ discovery_log.notified = 2

\* C14: handling a frame whose source, and for a Token whose destination, is
\* already a known master leaves known_masters and next_station as they
\* were, logs no discovery and recomputes nothing; a
\* Reply-To-Poll-For-Master, whose source is recorded twice, logs at most
\* one discovery.
C14_Idempotent ==
    [][handled' = handled + 1
        => /\ (/\ cur'[3] \in known_masters
               /\ cur'[1] = FRAME_TOKEN => cur'[2] \in known_masters)
              => /\ known_masters' = known_masters
                 /\ next_station' = next_station
                 /\ discovery_log' = discovery_log
           /\ cur'[1] = FRAME_REPLY_TO_POLL
              => /\ discovery_log'.notified <= discovery_log.notified + 1
                 /\ discovery_log'.recomputed
                       <= discovery_log.recomputed + 1]_vars

C14_Witness ==
    /\ handled = 2
    /\ cur = <<FRAME_REPLY_TO_POLL, 5, 2, NoData>>
    /\ known_masters = {2}
    /\ discovery_log = [notified |-> 1, recomputed |-> 1]
    /\ polls_received = 1

\* C15: handling a frame whose destination is neither the own address nor
\* 255 writes no frame and leaves state and the four counters as they were,
\* whatever the frame type.
C15_NotForUs ==
    [][(handled' = handled + 1 /\ cur'[2] # mac /\ cur'[2] # BROADCAST)
        => /\ written' = <<>>
           /\ UNCHANGED <<state, tokens_received, polls_received,
                          data_frames_received, frames_sent>>
           /\ pc' = "loop"]_vars

C15_Witness ==
    /\ handled = 1
    /\ cur = <<FRAME_POLL_FOR_MASTER, 5, 2, NoData>>
    /\ known_masters = {2}
    /\ written = <<>>
    /\ polls_received = 0 /\ frames_sent = 0 /\ state = "IDLE"

\* C16: handling a Test-Request addressed to the station writes exactly one
\* frame: a Test-Response from the own address to the request's source
\* whose payload is the request's payload, 8 bytes long when there is none.
C16_TestEcho ==
    [][(handled' = handled + 1 /\ cur'[1] = FRAME_TEST_REQUEST
            /\ cur'[2] = mac)
        => /\ Len(written') = 1
           /\ frames_sent' = frames_sent + 1
           /\ pc' = "loop"
           /\ LET w == written'[1]
                  n == DataLen(cur')
              IN  /\ w[3] = FRAME_TEST_RESPONSE
                  /\ w[4] = cur'[3] /\ w[5] = mac
                  /\ w[6] * 256 + w[7] = n
                  /\ Len(w) = (IF n = 0 THEN 8 ELSE 8 + n + 2)
                  /\ n > 0 => SubSeq(w, 9, 8 + n) = cur'[4]]_vars

C16_Witness ==
    /\ handled > 0
    /\ cur = <<FRAME_TEST_REQUEST, mac, 2, <<2, 1, 0>>>>
    /\ Len(written) = 1
    /\ written[1][3] = FRAME_TEST_RESPONSE /\ written[1][4] = 2
    /\ SubSeq(written[1], 9, 11) = <<2, 1, 0>>
    /\ Len(written[1]) = 13

(***************************************************************************)
(* Properties of the CRC-8 functions (specification SpecCrc).              *)
(***************************************************************************)
\* the algorithm as written in the specification, with constant k: register
\* 0xFF; per byte, XOR it in and do 8 steps of shift right, XORing k when
\* the low bit was set; the complement of the register is the result
RECURSIVE SpecifiedLoop(_, _, _)
SpecifiedLoop(reg, data, k) ==
    IF data = <<>> THEN reg
    ELSE SpecifiedLoop(ShiftXor(Xor(reg, Head(data)), k, 8), Tail(data), k)

SpecifiedCrc8(data, k) == 255 - SpecifiedLoop(255, data, k)

Called == crcs # NoCrcs

\* C17 as claimed: for every 5-byte header, crc8_header of mstp_simulator.py
\* returns the value of the shift-right algorithm with constant 0x8C.
C17_HeaderCrcIs8C ==
    (Called /\ Len(crc_input) = 5)
        => crcs.simulator = SpecifiedCrc8(crc_input, 140)

\* C17 as amended: the same with constant 0x81, the reflected form of
\* X^8 + X^7 + 1.
C17_HeaderCrcIs81 ==
    (Called /\ Len(crc_input) = 5)
        => crcs.simulator = SpecifiedCrc8(crc_input, 129)

C17_Witness ==
    /\ Called
    /\ crc_input = <<0, 6, 3, 0, 0>>
    /\ crcs.simulator = 98

\* C18: the bitwise forms (crc8_header_python, mstp_sniffer.crc8,
\* mstp_test_sender.crc8_header) and the parallel-XOR forms
\* (crc8_header_rust_style, mstp_simulator.crc8_header, calc_standard_crc)
\* return the same value for every byte sequence.
C18_FormsEquivalent ==
    Called
        => \A f \in {"python", "sniffer", "sender"} :
             \A g \in {"rust_style", "simulator", "standard"} :
                crcs[f] = crcs[g]

\* C19: for each header recorded on the bus, crc8_parallel and
\* mstp_simulator.crc8_header return the CRC byte recorded with it.
C19_ParallelMatchesBus ==
    \A v \in real_frames :
        (Called /\ crc_input = v[1])
            => (crcs.parallel = v[2] /\ crcs.simulator = v[2])

C19_Witness ==
    /\ Called
    /\ crc_input = <<1, 124, 6, 0, 0>>
    /\ crcs.parallel = 242
    /\ crcs.simulator = 242

\* C20: for each header recorded on the bus, crc8_ashrae, mstp_sniffer.crc8
\* and mstp_test_sender.crc8_header return the CRC byte recorded with it.
C20_BitwiseMatchesBus ==
    \A v \in real_frames :
        (Called /\ crc_input = v[1])
            => (crcs.ashrae = v[2] /\ crcs.sniffer = v[2]
                  /\ crcs.sender = v[2])

(***************************************************************************)
(* Properties of the encoders and the CRC-16 (specification SpecCodec).    *)
(***************************************************************************)
\* the algorithm of the specification: per byte XOR into the register, then
\* 8 shift-right steps XORing k when the low bit was set
RECURSIVE SpecifiedLoop16(_, _, _)
SpecifiedLoop16(reg, data, k) ==
    IF data = <<>> THEN reg
    ELSE LET r == ShiftXor(Xor(reg, Head(data)), k, 8)
         IN  IF r >= 0 THEN SpecifiedLoop16(r, Tail(data), k) ELSE r

SpecifiedCrc16(data) == 65535 - SpecifiedLoop16(65535, data, 33800)

Encoded == enc_out # NoEncoding

\* the last two bytes of a byte string
Trailer(b) == SubSeq(b, Len(b) - 1, Len(b))

\* C21: crc16_data and calculate_data_crc_ccitt return the value of the
\* reflected CRC-16/CCITT algorithm (register 0xFFFF, constant 0x8408,
\* one's complement); both encoders append it low byte first after a
\* non-empty payload; over the captured 17-byte Who-Is payload it is 0xD0A9,
\* the bytes a9 d0 of the capture recombined as low | high << 8.
C21_DataCrc16 ==
    Encoded =>
        LET p == bytes_of(enc_in.data)
        IN  /\ enc_out.crc16 = SpecifiedCrc16(p)
            /\ enc_out.ccitt = SpecifiedCrc16(p)
            /\ Len(p) > 0 =>
                  /\ Trailer(enc_out.frame)
                        = <<enc_out.crc16 % 256, enc_out.crc16 \div 256>>
                  /\ Trailer(enc_out.sender_frame)
                        = <<enc_out.crc16 % 256, enc_out.crc16 \div 256>>
            /\ p = who_is_data =>
                  /\ enc_out.crc16 = 53417
                  /\ enc_out.crc16
                        = Or(crc_from_frame.low, Shl(crc_from_frame.high, 8))
                  /\ Trailer(enc_out.frame)
                        = <<crc_from_frame.low, crc_from_frame.high>>

C21_Witness ==
    /\ Encoded
    /\ enc_in.data = who_is_data
    /\ enc_in.frame_type = FRAME_BACNET_DATA_NOT_EXPECTING_REPLY
    /\ enc_in.dest = BROADCAST /\ enc_in.src = 2
    /\ enc_out.frame = <<85, 255, 6, 255, 2, 0, 17, 216>> \o who_is_data
                           \o <<169, 208>>
    /\ enc_out.ccitt = 53417

\* C22: the CRC functions return the same value whenever they are called on
\* the same bytes, and a header or payload with any single bit changed gets
\* a different CRC-8, respectively CRC-16.
C22_SingleBitErrors ==
    Encoded =>
        LET p == bytes_of(enc_in.data)
        IN  /\ enc_out.crc8 = enc_out.frame[8]
            /\ Len(p) > 0 =>
                 enc_out.crc16 = Trailer(enc_out.frame)[1]
                                    + 256 * Trailer(enc_out.frame)[2]
            /\ enc_in.bit < 40 => enc_out.flipped_crc8 # enc_out.crc8
            /\ enc_in.bit < 8 * Len(p) => enc_out.flipped_crc16 # enc_out.crc16

C22_Witness ==
    /\ Encoded
    /\ enc_in.data = who_is_data
    /\ enc_in.bit = 39
    /\ enc_out.flipped_crc8 \in 0..255
    /\ enc_out.flipped_crc16 \in 0..65535
    /\ enc_out.flipped_crc8 # enc_out.crc8
    /\ enc_out.flipped_crc16 # enc_out.crc16

\* the layout of a frame for the arguments it was built from
WireLayout(f, t, d, s, data) ==
    LET p == bytes_of(data)
        L == Len(p)
        h == <<t, d, s, L \div 256, L % 256>>
    IN  /\ Len(f) >= 8
        /\ SubSeq(f, 1, 2) = <<85, 255>>
        /\ SubSeq(f, 3, 7) = h
        /\ f[8] = crc8_header(h)
        /\ IF L = 0 THEN Len(f) = 8
           ELSE /\ Len(f) = 8 + L + 2
                /\ SubSeq(f, 9, 8 + L) = p
                /\ Trailer(f) = <<SpecifiedCrc16(p) % 256,
                                  SpecifiedCrc16(p) \div 256>>

\* C23: a frame built by build_frame or by build_mstp_frame is 55 FF, type,
\* destination, source, length high, length low and the header CRC-8 over
\* those five bytes; it is 8 bytes long when the payload is empty and is
\* otherwise followed by the payload and its CRC-16, low byte first.
C23_WireLayout ==
    Encoded =>
        /\ WireLayout(enc_out.frame, enc_in.frame_type, enc_in.dest,
                      enc_in.src, enc_in.data)
        /\ WireLayout(enc_out.sender_frame, enc_in.frame_type, enc_in.dest,
                      enc_in.src, enc_in.data)

(***************************************************************************)
(* Further properties of MstpSimulator.run (specification SpecRun).        *)
(***************************************************************************)
\* b begins with a whole frame: preamble, header with its CRC-8 and, for a
\* length above 0, the payload with its CRC-16
FrameAhead(b) ==
    /\ Len(b) >= 8
    /\ b[1] = PREAMBLE1 /\ b[2] = PREAMBLE2
    /\ b[8] = crc8_header(SubSeq(b, 3, 7))
    /\ LET L == b[6] * 256 + b[7]
       IN  L > 0 => /\ Len(b) >= 8 + L + 2
                    /\ b[8 + L + 1] + 256 * b[8 + L + 2]
                          = crc16_data(SubSeq(b, 9, 8 + L))

\* C24: a frame with a valid header CRC and a type code outside 0..7 is
\* returned by parse_frame with that type code and handed to handle_frame;
\* handling it records its source as a master when that is a valid one,
\* writes nothing to the line and changes neither the state nor a counter.
C24_UnknownTypePassed ==
    [][/\ (pc = "loop" /\ FrameAhead(ParsedBuffer) /\ ParsedBuffer[3] > 7)
          => /\ ret'.frame # NoFrame
             /\ ret'.frame[1] = ParsedBuffer[3]
             /\ ret'.err = "none"
             /\ handled' = handled + 1
             /\ cur' = ret'.frame
       /\ (handled' # handled /\ cur'[1] > 7)
          => /\ ValidMaster(cur'[3]) => cur'[3] \in known_masters'
             /\ known_masters' \subseteq known_masters \cup {cur'[3]}
             /\ written' = <<>>
             /\ pc' = "loop"
             /\ UNCHANGED <<state, token_count, frame_count, tokens_received,
                            polls_received, data_frames_received,
                            frames_sent>>]_vars

C24_Witness ==
    /\ handled = 1
    /\ cur = <<UnknownType, DefaultMac, 12, NoData>>
    /\ ret.frame = cur
    /\ known_masters = {12} /\ next_station = 12
    /\ state = "IDLE" /\ pc = "loop"
    /\ written = <<>> /\ frames_sent = 0

(***************************************************************************)
(* Properties of the shared bus (specification SpecBus).                   *)
(***************************************************************************)
\* the Token frames on the bus that their addressee has not read yet
TokensInFlight ==
    {<<m, i>> \in BusMacs \X (1..MaxBusSends + 1) :
        /\ i <= Len(inbox[m])
        /\ inbox[m][i][3] = FRAME_TOKEN
        /\ inbox[m][i][4] = m}

TokenHolders == {m \in BusMacs : stations[m].state = "USE_TOKEN"}

StreamRead ==
    /\ wire = <<>>
    /\ prog = "simulator" => Settled(rx_buffer)

\* C26: when one byte of the header of one frame of a stream of frames has
\* changed, the framer (parse_frame, process_byte) returns every other frame
\* of the stream, in order, and nothing for the frame with the header error.
C26_HeaderErrorCostsOneFrame ==
    (segs \in CorruptStreams /\ StreamRead) =>
        IF prog = "simulator" THEN decoded = FramesOf(segs)
        ELSE sn_result = FramesOf(segs)

\* the position (from 1) of the first 0x55 0xFF of a buffer that has one
FirstPreamble(buf) ==
    CHOOSE i \in 1..(Len(buf) - 1) :
        /\ buf[i] = 85 /\ buf[i + 1] = 255
        /\ \A j \in 1..(i - 1) : ~(buf[j] = 85 /\ buf[j + 1] = 255)

\* a call of parse_frame has just logged a header CRC error
HeaderErrorStep ==
    /\ prog = "simulator"
    /\ wire' = wire
    /\ <<rx_buffer, ret, decoded>>' # <<rx_buffer, ret, decoded>>
    /\ ret'.err = "header"

\* C27 as claimed: on a header CRC mismatch parse_frame returns nothing and
\* removes the two preamble bytes and the byte after them, keeping the rest.
C27_DropsThree ==
    [][HeaderErrorStep
          => /\ decoded' = decoded /\ ret'.frame = NoFrame
             /\ rx_buffer' = Drop(rx_buffer, FirstPreamble(rx_buffer) + 2)]_vars

\* C27 as amended: it removes the two preamble bytes only; the byte after
\* them and every later byte stay, and the next call seeks from there.
C27_DropsPreamble ==
    [][HeaderErrorStep
          => /\ decoded' = decoded /\ ret'.frame = NoFrame
             /\ rx_buffer' = Drop(rx_buffer, FirstPreamble(rx_buffer) + 1)
             /\ rx_buffer'[1] = rx_buffer[FirstPreamble(rx_buffer) + 2]]_vars

C27_Witness ==
    /\ segs \in CorruptStreams
    /\ prog = "simulator" /\ wire = <<>>
    /\ ret.err = "header" /\ ret.frame = NoFrame
    /\ decoded = <<segs[1].frame>>
    /\ rx_buffer = Drop(segs[2].bytes \o segs[3].bytes, 2)
    /\ rx_buffer[1] = segs[2].bytes[3]

NoPreambleIn(buf) ==
    \A i \in 1..(Len(buf) - 1) : ~(buf[i] = 85 /\ buf[i + 1] = 255)

\* what a call of parse_frame does with a buffer without a preamble, and
\* with one whose first preamble has bytes before it
TrimsBuffer(buf) ==
    LET r == parse_frame(buf)
    IN  /\ NoPreambleIn(buf)
           => /\ r.frame = NoFrame
              /\ Len(r.buf) <= 1
              /\ r.buf = Drop(buf, Len(buf) - Len(r.buf))
        /\ (~NoPreambleIn(buf) /\ FirstPreamble(buf) > 1)
           => /\ \E k \in (FirstPreamble(buf) - 1)..Len(buf) :
                    r.buf = Drop(buf, k)
              /\ (r.frame = NoFrame /\ r.err = "none")
                 => /\ r.buf = Drop(buf, FirstPreamble(buf) - 1)
                    /\ SubSeq(r.buf, 1, 2) = <<85, 255>>

\* C28 as claimed: whatever the length of rx_buffer, a call of parse_frame
\* on a buffer without 0x55 0xFF leaves at most the last byte, and on a
\* buffer with bytes before the first 0x55 0xFF discards those bytes, so
\* that the buffer begins with the preamble.
C28_AnyLength == prog = "simulator" => TrimsBuffer(rx_buffer)

\* C28 as amended: this holds of buffers of at least 8 bytes; a shorter
\* buffer is left as it is.
C28_FromEightBytes ==
    prog = "simulator" =>
        IF Len(rx_buffer) >= 8 THEN TrimsBuffer(rx_buffer)
        ELSE /\ parse_frame(rx_buffer).buf = rx_buffer
             /\ parse_frame(rx_buffer).frame = NoFrame

\* a frame with a data CRC error has been read whole; the call after the
\* one that met the error found no preamble in the nine bytes left and kept
\* the last of them
C28_Witness ==
    /\ prog = "simulator" /\ wire = <<>>
    /\ Len(segs) = 1 /\ segs[1].kind = "noise" /\ Len(segs[1].bytes) = 11
    /\ NoPreambleIn(Drop(segs[1].bytes, 2))
    /\ rx_buffer = <<Last(segs[1].bytes)>>
    /\ ret.frame = NoFrame /\ ret.err = "none"
    /\ decoded = <<>>

\* the buffer from its first preamble on
FromPreamble(buf) == Drop(buf, FirstPreamble(buf) - 1)

\* the size of the frame whose header is at the front of b
DeclaredSize(b) ==
    LET L == b[6] * 256 + b[7] IN IF L > 0 THEN 8 + L + 2 ELSE 8

\* C29: when rx_buffer holds a preamble followed by a header with a valid
\* CRC-8 that declares length L, parse_frame returns nothing and leaves the
\* bytes from the preamble on as they are while fewer than 8 (L = 0) or
\* 8 + L + 2 (L > 0) of them are buffered; when it returns the frame it
\* removes exactly these bytes and keeps all that follow.
C29_EmittedWhenComplete ==
    /\ (prog = "simulator" /\ Len(rx_buffer) < 8)
          => /\ parse_frame(rx_buffer).frame = NoFrame
             /\ parse_frame(rx_buffer).buf = rx_buffer
    /\ (prog = "simulator" /\ Len(rx_buffer) >= 8 /\ ~NoPreambleIn(rx_buffer))
        => LET b == FromPreamble(rx_buffer)
               r == parse_frame(rx_buffer)
           IN  /\ Len(b) < 8 => (r.frame = NoFrame /\ r.buf = b)
               /\ (Len(b) >= 8 /\ b[8] = crc8_header(SubSeq(b, 3, 7)))
                  => /\ Len(b) < DeclaredSize(b)
                        => (r.frame = NoFrame /\ r.buf = b)
                     /\ r.frame # NoFrame
                        => /\ Len(b) >= DeclaredSize(b)
                           /\ r.buf = Drop(b, DeclaredSize(b))
                           /\ r.frame[1] = b[3] /\ r.frame[2] = b[4]
                           /\ r.frame[3] = b[5]
                           /\ DataLen(r.frame) = b[6] * 256 + b[7]
               /\ r.frame # NoFrame
                  => (Len(b) >= 8 /\ b[8] = crc8_header(SubSeq(b, 3, 7)))

\* two frames were read at once; the first call returned the first, a data
\* frame, and left exactly the bytes of the second
C29_Witness ==
    /\ prog = "simulator" /\ wire = <<>>
    /\ Len(segs) = 2
    /\ segs[1].kind = "frame" /\ segs[2].kind = "frame"
    /\ DataLen(segs[1].frame) = 2
    /\ ~bytewise
    /\ decoded = <<segs[1].frame>>
    /\ ret.frame = segs[1].frame
    /\ rx_buffer = segs[2].bytes

(***************************************************************************)
(* Properties of the loop of MstpSimulator.run (specification SpecRun).    *)
(***************************************************************************)
\* buf holds a whole frame with valid CRCs from its first preamble on
FrameWaiting(buf) == ~NoPreambleIn(buf) /\ FrameAhead(FromPreamble(buf))

IsPrefix(s, t) == Len(s) <= Len(t) /\ s = SubSeq(t, 1, Len(s))

\* C30 as claimed: the station reads bytes from the serial line only when
\* no complete frame is left in rx_buffer; all of them have been returned
\* by parse_frame and handled before.
C30_NoFrameWaits ==
    [][wire' # wire => ~FrameWaiting(rx_buffer)]_vars

\* C30 as amended: an iteration of the loop reads, calls parse_frame once
\* and hands the frame returned, if any, to handle_frame, which is done
\* (handle_use_token included) before the next read; the frames are handled
\* in the order of arrival, one per iteration, and what follows the frame
\* returned stays in rx_buffer for a later iteration.
C30_OneFramePerRead ==
    [][/\ pc = "loop"
          => /\ Len(decoded') <= Len(decoded) + 1
             /\ handled' = handled + (Len(decoded') - Len(decoded))
             /\ decoded' # decoded
                => /\ decoded' = Append(decoded, cur')
                   /\ ret'.frame = cur'
             /\ FrameAhead(ParsedBuffer)
                => /\ decoded' # decoded
                   /\ rx_buffer' = Drop(ParsedBuffer,
                                        DeclaredSize(ParsedBuffer))
       /\ pc = "use_token"
          => /\ wire' = wire /\ rx_buffer' = rx_buffer
             /\ decoded' = decoded /\ handled' = handled
             /\ pc' = "loop"
       /\ (\A i \in 1..Len(segs) : segs[i].kind = "frame")
          => IsPrefix(decoded', FramesOf(segs))]_vars

\* two frames arrived in one read: the first has been handled, the second
\* is whole in rx_buffer when the loop turns to the serial line again
C30_Witness ==
    /\ Len(segs) = 2
    /\ segs[1].kind = "frame" /\ segs[2].kind = "frame"
    /\ wire = <<>> /\ ~bytewise
    /\ pc = "loop"
    /\ handled = 1 /\ cur = segs[1].frame
    /\ decoded = <<segs[1].frame>>
    /\ rx_buffer = segs[2].bytes
    /\ FrameWaiting(rx_buffer)

(***************************************************************************)
(* Properties of the station's state and of what it transmits              *)
(* (specifications SpecRun and Spec).                                      *)
(***************************************************************************)
\* C31: self.state is "IDLE" or "USE_TOKEN"; it is "IDLE" whenever the loop
\* of run reads, parses or hands a frame to handle_frame; it is "USE_TOKEN"
\* only inside handle_frame for a Token the station accepted, and
\* handle_use_token sets it back before handle_frame returns.
C31_StateValues ==
    [][/\ state \in {"IDLE", "USE_TOKEN"}
       /\ state' \in {"IDLE", "USE_TOKEN"}
       /\ pc = "loop" => state = "IDLE"
       /\ (wire' # wire \/ rx_buffer' # rx_buffer \/ ret' # ret
             \/ handled' # handled)
          => state = "IDLE"
       /\ state' = "USE_TOKEN"
          => /\ pc' = "use_token"
             /\ cur'[1] = FRAME_TOKEN
             /\ cur'[2] = mac \/ cur'[2] = BROADCAST
             /\ handled' = handled + 1
       /\ state = "USE_TOKEN"
          => /\ state' = "IDLE" /\ pc' = "loop"
             /\ handled' = handled /\ cur' = cur]_vars

\* the station is inside handle_use_token for the Token it has just read
C31_Witness ==
    /\ state = "USE_TOKEN" /\ pc = "use_token"
    /\ cur = <<FRAME_TOKEN, DefaultMac, 2, NoData>>
    /\ tokens_received = 1 /\ token_count = 0
    /\ handled = 1 /\ wire # <<>>

\* the frames written to the line in the step taken
NewlyWritten ==
    IF pc = "loop" THEN written'
    ELSE SubSeq(written', Len(written) + 1, Len(written'))

\* C32: a Token or Poll-For-Master is written only by handle_use_token,
\* in the state "USE_TOKEN" and while a Token the station accepted is being
\* handled; what the station writes while "IDLE" is a Reply-To-Poll-For-
\* Master to the source of a Poll-For-Master, or a Test-Response to the
\* source of a Test-Request, that passed the address check.
C32_OnlyHolderInitiates ==
    [][\A i \in 1..Len(NewlyWritten) :
          LET f == NewlyWritten[i]
          IN  /\ f[5] = mac
              /\ f[3] \in {FRAME_TOKEN, FRAME_POLL_FOR_MASTER}
                 => /\ state = "USE_TOKEN" /\ pc = "use_token"
                    /\ cur[1] = FRAME_TOKEN
                    /\ cur[2] = mac \/ cur[2] = BROADCAST
              /\ state = "IDLE"
                 => /\ f[3] \in {FRAME_REPLY_TO_POLL, FRAME_TEST_RESPONSE}
                    /\ f[3] = FRAME_REPLY_TO_POLL
                       => cur'[1] = FRAME_POLL_FOR_MASTER
                    /\ f[3] = FRAME_TEST_RESPONSE
                       => cur'[1] = FRAME_TEST_REQUEST
                    /\ f[4] = cur'[3]
                    /\ cur'[2] = mac \/ cur'[2] = BROADCAST
              /\ state = "USE_TOKEN"
                 => f[3] \in {FRAME_TOKEN, FRAME_POLL_FOR_MASTER}]_vars

\* the station has held and passed on the token, and has then, idle,
\* answered a Test-Request
C32_Witness ==
    /\ state = "IDLE" /\ pc = "loop"
    /\ token_count = 1 /\ handled = 2
    /\ cur[1] = FRAME_TEST_REQUEST /\ cur[2] = mac
    /\ Len(written) = 1
    /\ written[1][3] = FRAME_TEST_RESPONSE /\ written[1][4] = cur[3]

\* C34: discovery runs before the Token is handled.  A station that accepts
\* a Token from a valid master source enters handle_use_token with a known
\* next_station and writes a Token to it, never a Poll-For-Master; it writes
\* a Poll-For-Master only with known_masters empty, the source of the Token
\* being its own address or above max_master; and with known_masters empty
\* before, a Token from a valid source goes straight back to the sender.
C34_ValidSourceForwards ==
    [][/\ pc = "use_token"
          => LET f == Last(written')
             IN  /\ Len(written') = Len(written) + 1
                 /\ f[3] \in {FRAME_TOKEN, FRAME_POLL_FOR_MASTER}
                 /\ ValidMaster(cur[3])
                    => /\ next_station # None
                       /\ f[3] = FRAME_TOKEN /\ f[4] = next_station
                 /\ f[3] = FRAME_POLL_FOR_MASTER
                    => /\ known_masters = {}
                       /\ cur[3] = mac \/ cur[3] > max_master
                 /\ known_masters = {cur[3]} => f[4] = cur[3]
       /\ (pc = "loop" /\ pc' = "use_token" /\ known_masters = {}
             /\ ValidMaster(cur'[3]))
          => /\ known_masters' = {cur'[3]}
             /\ next_station' = cur'[3]]_vars

\* a station that knew no master has passed its first token back to the sender
C34_Witness ==
    /\ pc = "loop" /\ handled = 1 /\ token_count = 1
    /\ cur[1] = FRAME_TOKEN /\ cur[2] = mac /\ ValidMaster(cur[3])
    /\ known_masters = {cur[3]}
    /\ written = <<build_frame(FRAME_TOKEN, cur[3], mac, NoData)>>

\* C35: the station enters the token-holding state, counts a received
\* token and writes a Token or Poll-For-Master only for a Token whose
\* destination is its own address, never for one to the broadcast address.
C35_TokenOnlyForOwnAddress ==
    [][(state' = "USE_TOKEN" \/ tokens_received' # tokens_received
          \/ pc = "use_token")
       => LET t == IF pc = "use_token" THEN cur ELSE cur'
          IN  t[1] = FRAME_TOKEN /\ t[2] = mac /\ t[2] # BROADCAST]_vars

\* C36: a Token the station writes has the own address as source and a
\* member of known_masters as destination, which is neither the own
\* address nor the broadcast address nor above max_master.
C36_TokenToKnownMaster ==
    [][\A i \in 1..Len(NewlyWritten) :
          LET f == NewlyWritten[i]
          IN  f[3] = FRAME_TOKEN
              => /\ f[5] = mac
                 /\ f[4] \in known_masters /\ f[4] = next_station
                 /\ f[4] # mac /\ f[4] # BROADCAST /\ f[4] <= max_master]_vars

\* the token went to the next of two known masters
C36_Witness ==
    /\ pc = "loop" /\ handled > 0
    /\ cur[1] = FRAME_TOKEN
    /\ Cardinality(known_masters) = 2
    /\ Len(written) = 1
    /\ written[1][3] = FRAME_TOKEN /\ written[1][5] = mac
    /\ written[1][4] \in known_masters

RingNext(m) == NextAfter(BusMacs \ {m}, m)

\* the stations can still send the frames of one round of the token
RoundLeft == SentBy(BusMacs) + Cardinality(BusMacs) <= MaxBusSends

\* C37: when every station knows exactly the other stations, there is
\* always exactly one token (a Token its addressee has not read yet, or a
\* station holding it); a station holding the token writes a Token to the
\* next higher address, the highest to the lowest; and, every station's
\* loop running on, every station comes to hold the token whenever the
\* stations can still send the frames of one round.
C37_RingCirculates ==
    /\ [](Cardinality(TokensInFlight) + Cardinality(TokenHolders) = 1)
    /\ [][\A m \in BusMacs :
             (stations[m].pc = "use_token" /\ stations'[m].pc = "loop")
             => /\ stations'[m].state = "IDLE"
                /\ \A x \in BusMacs \ {m} :
                      inbox'[x] = Append(inbox[x],
                         build_frame(FRAME_TOKEN, RingNext(m), m, NoData))]_vars
    /\ \A m \in BusMacs :
          RoundLeft ~> (stations[m].state = "USE_TOKEN")

\* the token has gone round once and the lowest station holds it again
C37_Witness ==
    /\ stations # <<>>
    /\ \A m \in BusMacs : stations[m].known_masters = BusMacs \ {m}
    /\ stations[4].tokens_received = 2 /\ stations[4].state = "USE_TOKEN"
    /\ stations[5].token_count = 1 /\ stations[9].token_count = 1
    /\ inbox[5] = <<>>

(***************************************************************************)
(* The encoders against the framers (specification SpecCodec).             *)
(***************************************************************************)
\* the frame the encoders were called for, as a framer returns it
EncodedFrame ==
    <<enc_in.frame_type, enc_in.dest, enc_in.src,
      IF bytes_of(enc_in.data) = <<>> THEN NoData ELSE enc_in.data>>

\* C38: parse_frame of the simulator returns the frame that
\* mstp_test_sender.build_mstp_frame has built, with no CRC error; the
\* sniffer's process_byte returns the frame that mstp_simulator.build_frame
\* has built; and a simulator station at the destination of a
\* Poll-For-Master built by the test sender writes exactly one
\* Reply-To-Poll-For-Master, to the source of the poll.
C38_Interoperate ==
    Encoded =>
        LET r == parse_frame(enc_out.sender_frame)
        IN  /\ r.frame = EncodedFrame /\ r.err = "none"
            /\ sniffer_frames(SnifferInit, enc_out.frame) = <<EncodedFrame>>
            /\ (enc_in.frame_type = FRAME_POLL_FOR_MASTER
                  /\ enc_in.dest # BROADCAST)
               => station_handle_frame(NewStation(enc_in.dest), r.frame[1],
                                       r.frame[2], r.frame[3], r.frame[4]).out
                     = <<build_frame(FRAME_REPLY_TO_POLL, enc_in.src,
                                     enc_in.dest, NoData)>>

(***************************************************************************)
(* The sniffer's buffer (specification SpecFramer).                        *)
(***************************************************************************)
\* C39: while MstpSniffer is in the state HEADER or DATA its buffer begins
\* with the preamble 0x55 0xFF, so that buffer[2..7] are the header bytes.
C39_BufferStartsWithPreamble ==
    (prog = "sniffer" /\ sn.state \in {"HEADER", "DATA"})
        => /\ Len(sn.buffer) >= 2
           /\ sn.buffer[1] = PREAMBLE1 /\ sn.buffer[2] = PREAMBLE2

(***************************************************************************)
(* The tallies of the capture loop (specification SpecCapture).            *)
(***************************************************************************)
\* C40: std_match + emp_match never exceeds frame_count, frame_count never
\* exceeds the number of frames put on the line, and once the line has been
\* read to its end frame_count is that number, however the reads cut the
\* stream.
C40_CountedOnce ==
    prog = "capture" =>
        /\ capture.std_match + capture.emp_match <= capture.frame_count
        /\ capture.frame_count <= Len(FramesOf(segs))
        /\ wire = <<>> => capture.frame_count = Len(FramesOf(segs))

====
